---- MODULE Spec2Model ----
(***************************************************************************)
(* A model of electrumx/lib/util_atomicals.py: the Atomicals parser and    *)
(* validator.  Every component of that file is a pure function, so each    *)
(* component gets its own specification: Init draws a call (the function   *)
(* and its arguments) from a bounded family and the action of that         *)
(* function runs it on them.                                               *)
(*                                                                         *)
(* Representation.  A Python str is a sequence of one-character strings    *)
(* (<<"a", "b">>), a Python bytes value is a sequence of numbers 0..255,   *)
(* a decoded payload value is a record tagged with its type t (the value   *)
(* is in a field named after the type) and a dict is the sequence of its   *)
(* [k, v] entries in insertion order, keys and values being such records.  *)
(*                                                                         *)
(* Local variables.  Where the code assigns the result of a call to a      *)
(* local variable and reads it several times, the model binds the value    *)
(* once: CHOOSE result \in {e(x) : x \in {call}} : TRUE is e(call), with   *)
(* the call evaluated a single time.                                       *)
(***************************************************************************)
EXTENDS Integers, Sequences, FiniteSets, TLC

VARIABLES
    call,     \* the function called (fn) and its arguments
    ret       \* what the call returned or raised; Pending before it has run

vars == <<call, ret>>

Pending == [state |-> "pending"]

(***************************************************************************)
(* Python values                                                           *)
(***************************************************************************)
PyNone == [t |-> "none"]
PyInt(n) == [t |-> "int", i |-> n]
PyBool(b) == [t |-> "bool", b |-> b]
\* f is the float's IEEE half-precision bit pattern (16384 is 2.0)
PyFloat(bits) == [t |-> "float", f |-> bits]
PyStr(s) == [t |-> "str", s |-> s]
PyBytes(y) == [t |-> "bytes", y |-> y]
PyList(l) == [t |-> "list", l |-> l]
PyDict(entries) == [t |-> "dict", d |-> entries]

\* isinstance(x, int): bool is a subclass of int in Python
isinstance_int(x) == x.t \in {"int", "bool"}

\* the number an int instance stands for (True is 1, False is 0)
int_value(x) == IF x.t = "bool" THEN (IF x.b THEN 1 ELSE 0) ELSE x.i

\* Python truthiness, as used by `if x` and by `and`
truthy(x) ==
    \E v \in {x} :
        CASE v.t = "none" -> FALSE
          [] v.t = "bool" -> v.b
          [] v.t = "int" -> v.i # 0
          [] v.t = "float" -> v.f % 32768 # 0
          [] v.t = "str" -> Len(v.s) > 0
          [] v.t = "bytes" -> Len(v.y) > 0
          [] v.t = "list" -> Len(v.l) > 0
          [] v.t = "dict" -> Len(v.d) > 0

\* no operation found in the transaction (None, or the empty dict)
NoOperation == [op |-> "none", input_index |-> 0, payload |-> PyDict(<<>>)]

\* dict.get(key): the value stored under key, None when there is none
dict_get(d, key) ==
    CHOOSE value \in
        {IF \E i \in 1..Len(entries) : entries[i].k = key
         THEN entries[CHOOSE i \in 1..Len(entries) : entries[i].k = key].v
         ELSE PyNone : entries \in {d.d}} : TRUE

(***************************************************************************)
(* Text and byte helpers                                                   *)
(***************************************************************************)
HexDigits == <<"0", "1", "2", "3", "4", "5", "6", "7",
               "8", "9", "a", "b", "c", "d", "e", "f">>

DecDigits == <<"0", "1", "2", "3", "4", "5", "6", "7", "8", "9">>

Reverse(s) == [i \in 1..Len(s) |-> s[Len(s) + 1 - i]]

RECURSIVE Flatten(_)
Flatten(ss) == IF Len(ss) = 0 THEN <<>> ELSE Head(ss) \o Flatten(Tail(ss))

\* bytes.hex(): two lowercase hex digits per byte
bytes_hex(b) ==
    Flatten([i \in 1..Len(b) |-> <<HexDigits[(b[i] \div 16) + 1], HexDigits[(b[i] % 16) + 1]>>])

\* str(n) for n >= 0, as an f-string formats it
RECURSIVE int_to_str(_)
int_to_str(n) ==
    IF n < 10 THEN <<DecDigits[n + 1]>>
    ELSE int_to_str(n \div 10) \o <<DecDigits[(n % 10) + 1]>>

\* electrumx.lib.hash.hash_to_hex_str: bytes(reversed(x)).hex()
hash_to_hex_str(x) == bytes_hex(Reverse(x))

\* electrumx.lib.util.unpack_le_uint32_from: the first 4 bytes, little-endian
unpack_le_uint32_from(b) ==
    b[1] + 256 * b[2] + 65536 * b[3] + 16777216 * b[4]

\* electrumx.lib.util.pack_le_uint32
pack_le_uint32(n) ==
    <<n % 256, (n \div 256) % 256, (n \div 65536) % 256, (n \div 16777216) % 256>>

(***************************************************************************)
(* Atomical-id codec, binary -> compact                                    *)
(***************************************************************************)
location_id_bytes_to_compact(location_id) ==
    LET digit == unpack_le_uint32_from(SubSeq(location_id, 33, Len(location_id)))
    IN  hash_to_hex_str(SubSeq(location_id, 1, 32)) \o <<"i">> \o int_to_str(digit)

(***************************************************************************)
(* FT output distributor                                                   *)
(***************************************************************************)
\* lines 134-143: the amount to skip requested by the operation found.
\* atomicals_operations_found is the struct built by
\* parse_protocols_operations_from_witness_array, or NoOperation (None / {}).
ft_total_amount_to_skip(atomical_id, atomicals_operations_found) ==
    LET compact_atomical_id == location_id_bytes_to_compact(atomical_id)
        ops == atomicals_operations_found
    IN  IF /\ ops.op # "none"
           /\ ops.op = "y"
           /\ ops.input_index = 0
           /\ truthy(ops.payload)
           /\ truthy(dict_get(ops.payload, PyStr(compact_atomical_id)))
        THEN LET total_amount_to_skip_potential ==
                     dict_get(ops.payload, PyStr(compact_atomical_id))
             IN  IF /\ isinstance_int(total_amount_to_skip_potential)
                    /\ int_value(total_amount_to_skip_potential) >= 0
                 THEN int_value(total_amount_to_skip_potential)
                 ELSE 0
        ELSE 0

\* ft_outputs_loop with the `break` of line 166 turned into a `continue`: an
\* output that does not fit is passed over and later outputs are still coloured
RECURSIVE ft_outputs_loop_no_break(_, _, _, _)
ft_outputs_loop_no_break(outputs, out_idx, total_amount_to_skip, acc) ==
    IF out_idx >= Len(outputs) THEN acc
    ELSE LET value == outputs[out_idx + 1] IN
         IF total_amount_to_skip > 0 /\ acc.total_skipped_so_far < total_amount_to_skip
         THEN ft_outputs_loop_no_break(outputs, out_idx + 1, total_amount_to_skip,
                  [acc EXCEPT !.total_skipped_so_far = @ + value,
                              !.skipped = Append(@, out_idx)])
         ELSE IF value <= acc.remaining_value
         THEN ft_outputs_loop_no_break(outputs, out_idx + 1, total_amount_to_skip,
                  [acc EXCEPT !.expected_output_indexes = Append(@, out_idx),
                              !.remaining_value = @ - value])
         ELSE ft_outputs_loop_no_break(outputs, out_idx + 1, total_amount_to_skip, acc)

\* lines 148-166: the loop over tx.outputs; out_idx is the 0-based index of the
\* output visited next, acc the locals of the function
RECURSIVE ft_outputs_loop(_, _, _, _)
ft_outputs_loop(outputs, out_idx, total_amount_to_skip, acc) ==
    IF out_idx >= Len(outputs) THEN acc
    ELSE LET value == outputs[out_idx + 1] IN
         IF total_amount_to_skip > 0 /\ acc.total_skipped_so_far < total_amount_to_skip
         THEN ft_outputs_loop(outputs, out_idx + 1, total_amount_to_skip,
                  [acc EXCEPT !.total_skipped_so_far = @ + value,
                              !.skipped = Append(@, out_idx)])
         ELSE IF value <= acc.remaining_value
         THEN ft_outputs_loop(outputs, out_idx + 1, total_amount_to_skip,
                  [acc EXCEPT !.expected_output_indexes = Append(@, out_idx),
                              !.remaining_value = @ - value])
         ELSE acc

\* lines 126-167.  The function returns expected_output_indexes; the other
\* fields are its locals when it returns (skipped: the outputs passed over by
\* the `continue` of line 157).
get_expected_output_indexes_of_atomical_ft(mint_info, outputs, atomical_id, ops) ==
    IF mint_info.type # "FT" THEN [state |-> "AssertionError"] ELSE
    LET total_amount_to_skip == ft_total_amount_to_skip(atomical_id, ops)
        acc == ft_outputs_loop(outputs, 0, total_amount_to_skip,
                   [expected_output_indexes |-> <<>>,
                    remaining_value |-> mint_info.value,
                    total_skipped_so_far |-> 0,
                    skipped |-> <<>>])
    IN  [state |-> "returned",
         expected_output_indexes |-> acc.expected_output_indexes,
         remaining_value |-> acc.remaining_value,
         total_amount_to_skip |-> total_amount_to_skip,
         total_skipped_so_far |-> acc.total_skipped_so_far,
         skipped |-> acc.skipped]

(***************************************************************************)
(* Python text primitives used by the bitwork and id parsers               *)
(***************************************************************************)
LowerAlnum ==
    {"a", "b", "c", "d", "e", "f", "g", "h", "i", "j", "k", "l", "m",
     "n", "o", "p", "q", "r", "s", "t", "u", "v", "w", "x", "y", "z",
     "0", "1", "2", "3", "4", "5", "6", "7", "8", "9"}

Whitespace == {" ", "\n", "\t"}

IsDecDigit(c) == \E d \in 1..10 : DecDigits[d] = c

DecDigitValue(c) == (CHOOSE d \in 1..10 : DecDigits[d] = c) - 1

\* str.strip()
RECURSIVE str_strip(_)
str_strip(s) ==
    IF Len(s) > 0 /\ s[1] \in Whitespace THEN str_strip(Tail(s))
    ELSE IF Len(s) > 0 /\ s[Len(s)] \in Whitespace THEN str_strip(SubSeq(s, 1, Len(s) - 1))
    ELSE s

\* the number written by a sequence of digits and underscores
RECURSIVE digits_value(_, _)
digits_value(s, acc) ==
    IF Len(s) = 0 THEN acc
    ELSE IF s[1] = "_" THEN digits_value(Tail(s), acc)
    ELSE digits_value(Tail(s), 10 * acc + DecDigitValue(s[1]))

\* int(s) for a str s: surrounding whitespace is stripped, one sign is allowed,
\* then decimal digits, single underscores allowed between digits; anything
\* else raises ValueError (ok = FALSE)
py_int(s) ==
    LET t == str_strip(s)
        signed == Len(t) > 0 /\ t[1] \in {"+", "-"}
        body == IF signed THEN Tail(t) ELSE t
        n == Len(body)
        wellformed ==
            /\ n > 0
            /\ \A i \in 1..n : IsDecDigit(body[i]) \/ body[i] = "_"
            /\ body[1] # "_" /\ body[n] # "_"
            /\ \A i \in 1..(n - 1) : ~(body[i] = "_" /\ body[i + 1] = "_")
    IN  IF ~wellformed THEN [ok |-> FALSE, value |-> 0]
        ELSE [ok |-> TRUE,
              value |-> IF signed /\ t[1] = "-" THEN 0 - digits_value(body, 0)
                        ELSE digits_value(body, 0)]

\* str.count(c)
str_count(s, c) == Cardinality({i \in 1..Len(s) : s[i] = c})

\* str.find(c): 0-based index of the first c, -1 when there is none
str_find(s, c) ==
    IF \E i \in 1..Len(s) : s[i] = c
    THEN (CHOOSE i \in 1..Len(s) : s[i] = c /\ \A j \in 1..(i - 1) : s[j] # c) - 1
    ELSE -1

\* str.startswith
str_startswith(s, prefix) ==
    Len(prefix) <= Len(s) /\ SubSeq(s, 1, Len(prefix)) = prefix

(***************************************************************************)
(* Bitwork (proof of work) strings                                         *)
(***************************************************************************)
POW_PREFIX_MAX_LEN == 64
POW_PREFIX_EXT_MAX == 15

\* re.compile(r'^[a-z0-9]{1,64}$').match(s): `$` also matches just before a
\* newline that ends the string
pow_prefix_regex_match(s) ==
    LET n == Len(s)
        core == IF n > 0 /\ s[n] = "\n" THEN SubSeq(s, 1, n - 1) ELSE s
    IN  /\ Len(core) >= 1
        /\ Len(core) <= POW_PREFIX_MAX_LEN
        /\ \A i \in 1..Len(core) : core[i] \in LowerAlnum

\* lines 296-308; pow_prefix is a str, pow_prefix_ext an int or None.
\* Line 302 reads `A and B or C and D`, which Python groups (A and B) or (C and D).
is_validate_pow_prefix_string(pow_prefix, pow_prefix_ext) ==
    IF Len(pow_prefix) = 0 THEN FALSE
    ELSE IF truthy(pow_prefix_ext)
    THEN \/ (isinstance_int(pow_prefix_ext) /\ int_value(pow_prefix_ext) >= 0)
         \/ (int_value(pow_prefix_ext) <= POW_PREFIX_EXT_MAX /\ pow_prefix_regex_match(pow_prefix))
    ELSE pow_prefix_regex_match(pow_prefix)

BitworkRejected == [state |-> "returned", accepted |-> FALSE]

\* lines 361-386; returns (None, None) (BitworkRejected) or the string with
\* its parts
is_valid_bitwork_string(bitwork) ==
    IF ~truthy(bitwork) THEN BitworkRejected
    ELSE IF bitwork.t # "str" THEN BitworkRejected
    ELSE IF str_count(bitwork.s, ".") > 1 THEN BitworkRejected
    ELSE LET dot == str_find(bitwork.s, ".")
             prefix == IF dot < 0 THEN bitwork.s ELSE SubSeq(bitwork.s, 1, dot)
             parsed == IF dot < 0 THEN [ok |-> TRUE, value |-> 0]
                       ELSE py_int(SubSeq(bitwork.s, dot + 2, Len(bitwork.s)))
             ext == IF dot < 0 THEN PyNone ELSE PyInt(parsed.value)
         IN  IF ~parsed.ok THEN BitworkRejected
             ELSE IF is_validate_pow_prefix_string(prefix, ext)
             THEN [state |-> "returned", accepted |-> TRUE,
                   bitwork |-> bitwork.s, prefix |-> prefix, ext |-> ext]
             ELSE BitworkRejected

HexDigitValue(c) == (CHOOSE d \in 1..16 : HexDigits[d] = c) - 1

\* is_proof_of_work_prefix_match with the comparison of line 351 reversed
is_proof_of_work_prefix_match_reversed(tx_hash, powprefix, powprefix_ext) ==
    LET txid == hash_to_hex_str(tx_hash) IN
    IF truthy(powprefix_ext)
    THEN IF ~isinstance_int(powprefix_ext) THEN [state |-> "returned", value |-> FALSE]
         ELSE IF powprefix_ext.i < 0 \/ powprefix_ext.i > POW_PREFIX_EXT_MAX
         THEN [state |-> "returned", value |-> FALSE]
         ELSE IF ~str_startswith(txid, powprefix) THEN [state |-> "returned", value |-> FALSE]
         ELSE IF Len(powprefix) >= Len(txid) THEN [state |-> "raised", error |-> "IndexError"]
         ELSE [state |-> "returned",
               value |-> HexDigitValue(txid[Len(powprefix) + 1]) <= powprefix_ext.i]
    ELSE [state |-> "returned", value |-> str_startswith(txid, powprefix)]

\* lines 311-358; powprefix is a str, powprefix_ext None, an int or a float.
\* txid[len(powprefix)] of line 329 raises IndexError when the prefix is as
\* long as the txid.
is_proof_of_work_prefix_match(tx_hash, powprefix, powprefix_ext) ==
    LET txid == hash_to_hex_str(tx_hash) IN
    IF truthy(powprefix_ext)
    THEN IF ~isinstance_int(powprefix_ext) THEN [state |-> "returned", value |-> FALSE]
         ELSE IF powprefix_ext.i < 0 \/ powprefix_ext.i > POW_PREFIX_EXT_MAX
         THEN [state |-> "returned", value |-> FALSE]
         ELSE IF ~str_startswith(txid, powprefix) THEN [state |-> "returned", value |-> FALSE]
         ELSE IF Len(powprefix) >= Len(txid) THEN [state |-> "raised", error |-> "IndexError"]
         ELSE [state |-> "returned",
               value |-> HexDigitValue(txid[Len(powprefix) + 1]) >= powprefix_ext.i]
    ELSE [state |-> "returned", value |-> str_startswith(txid, powprefix)]

(***************************************************************************)
(* Atomical-id codec, compact -> binary                                    *)
(***************************************************************************)
COMPACT_ID_INDEX_OF_I == 64
COMPACT_ID_MAX_INDEX == 100000

UpperHexDigits == <<"0", "1", "2", "3", "4", "5", "6", "7",
                    "8", "9", "A", "B", "C", "D", "E", "F">>

IsHexChar(c) == \E d \in 1..16 : HexDigits[d] = c \/ UpperHexDigits[d] = c

HexCharValue(c) == (CHOOSE d \in 1..16 : HexDigits[d] = c \/ UpperHexDigits[d] = c) - 1

\* bytes.fromhex(s): pairs of hex digits of either case; whitespace between
\* the pairs is skipped; anything else raises ValueError (ok = FALSE)
RECURSIVE bytes_fromhex(_, _)
bytes_fromhex(s, acc) ==
    IF Len(s) = 0 THEN [ok |-> TRUE, value |-> acc]
    ELSE IF s[1] \in Whitespace THEN bytes_fromhex(Tail(s), acc)
    ELSE IF Len(s) >= 2 /\ IsHexChar(s[1]) /\ IsHexChar(s[2])
    THEN bytes_fromhex(SubSeq(s, 3, Len(s)),
                       Append(acc, 16 * HexCharValue(s[1]) + HexCharValue(s[2])))
    ELSE [ok |-> FALSE, value |-> <<>>]

\* electrumx.lib.hash.hex_str_to_hash: bytes(reversed(bytes.fromhex(x)))
hex_str_to_hash(x) ==
    LET raw == bytes_fromhex(x, <<>>)
    IN  [ok |-> raw.ok, value |-> Reverse(raw.value)]

Raised(error) == [state |-> "raised", error |-> error]

\* compact_to_location_id_bytes reading the index one character too far
\* (value[66:] for value[65:])
compact_to_location_id_bytes_shifted(value) ==
    LET index_of_i == str_find(value, "i")
        raw_hash == hex_str_to_hash(SubSeq(value, 1, COMPACT_ID_INDEX_OF_I))
        num == py_int(SubSeq(value, COMPACT_ID_INDEX_OF_I + 3, Len(value)))
    IN  IF index_of_i < 0 THEN Raised("ValueError")
        ELSE IF index_of_i # COMPACT_ID_INDEX_OF_I THEN Raised("TypeError")
        ELSE IF ~raw_hash.ok THEN Raised("ValueError")
        ELSE IF Len(raw_hash.value) # 32 THEN Raised("TypeError")
        ELSE IF ~num.ok THEN Raised("ValueError")
        ELSE IF num.value < 0 \/ num.value > COMPACT_ID_MAX_INDEX THEN Raised("TypeError")
        ELSE [state |-> "returned", value |-> raw_hash.value \o pack_le_uint32(num.value)]

\* compact_to_location_id_bytes without the range check of lines 252-253
compact_to_location_id_bytes_no_range(value) ==
    LET index_of_i == str_find(value, "i")
        raw_hash == hex_str_to_hash(SubSeq(value, 1, COMPACT_ID_INDEX_OF_I))
        num == py_int(SubSeq(value, COMPACT_ID_INDEX_OF_I + 2, Len(value)))
    IN  IF index_of_i < 0 THEN Raised("ValueError")
        ELSE IF index_of_i # COMPACT_ID_INDEX_OF_I THEN Raised("TypeError")
        ELSE IF ~raw_hash.ok THEN Raised("ValueError")
        ELSE IF Len(raw_hash.value) # 32 THEN Raised("TypeError")
        ELSE IF ~num.ok THEN Raised("ValueError")
        ELSE IF num.value < 0 THEN Raised("struct.error")
        ELSE [state |-> "returned", value |-> raw_hash.value \o pack_le_uint32(num.value)]

\* lines 237-255; value is a str.  value.index("i") raises ValueError when
\* there is no "i", bytes.fromhex and int raise ValueError on text they cannot
\* read, the checks of the function itself raise TypeError.
compact_to_location_id_bytes(value) ==
    LET index_of_i == str_find(value, "i")
        raw_hash == hex_str_to_hash(SubSeq(value, 1, COMPACT_ID_INDEX_OF_I))
        num == py_int(SubSeq(value, COMPACT_ID_INDEX_OF_I + 2, Len(value)))
    IN  IF index_of_i < 0 THEN Raised("ValueError")
        ELSE IF index_of_i # COMPACT_ID_INDEX_OF_I THEN Raised("TypeError")
        ELSE IF ~raw_hash.ok THEN Raised("ValueError")
        ELSE IF Len(raw_hash.value) # 32 THEN Raised("TypeError")
        ELSE IF ~num.ok THEN Raised("ValueError")
        ELSE IF num.value < 0 \/ num.value > COMPACT_ID_MAX_INDEX THEN Raised("TypeError")
        ELSE [state |-> "returned", value |-> raw_hash.value \o pack_le_uint32(num.value)]

(***************************************************************************)
(* CBOR payloads (cbor2.loads)                                             *)
(***************************************************************************)
\* the printable ASCII characters, from code 32 (space) to code 126 (~); the
\* double quote, the backslash and the backtick are written by name
Ascii ==
    <<" ", "!", "dquote", "#", "$", "%", "&", "'", "(", ")", "*", "+", ",", "-", ".", "/",
      "0", "1", "2", "3", "4", "5", "6", "7", "8", "9", ":", ";", "<", "=", ">", "?",
      "@", "A", "B", "C", "D", "E", "F", "G", "H", "I", "J", "K", "L", "M", "N", "O",
      "P", "Q", "R", "S", "T", "U", "V", "W", "X", "Y", "Z", "[", "backslash", "]", "^", "_",
      "backtick", "a", "b", "c", "d", "e", "f", "g", "h", "i", "j", "k", "l", "m", "n", "o",
      "p", "q", "r", "s", "t", "u", "v", "w", "x", "y", "z", "{", "|", "}", "~">>

\* the bytes of the text the payloads of the model hold: printable ASCII and
\* the newline
IsAsciiByte(b) == (b >= 32 /\ b <= 126) \/ b = 10

\* bytes.decode() and str.encode() on such text
text_decode(bytes) ==
    [i \in 1..Len(bytes) |-> IF bytes[i] = 10 THEN "\n" ELSE Ascii[bytes[i] - 31]]
AsciiCode == [c \in {Ascii[b] : b \in 1..95} |-> (CHOOSE b \in 1..95 : Ascii[b] = c) + 31]
text_encode(text) == [i \in 1..Len(text) |-> IF text[i] = "\n" THEN 10 ELSE AsciiCode[text[i]]]

Min(a, b) == IF a < b THEN a ELSE b

\* Python's s[from:to] on a bytes value, 0-based and clipped to the value
Slice(s, from, to) == SubSeq(s, from + 1, Min(to, Len(s)))

\* d[k] = v on a dict: a key already present keeps its place
dict_set(entries, k, v) ==
    IF \E i \in 1..Len(entries) : entries[i].k = k
    THEN [i \in 1..Len(entries) |-> IF entries[i].k = k THEN [k |-> k, v |-> v] ELSE entries[i]]
    ELSE Append(entries, [k |-> k, v |-> v])

CborFail == [ok |-> FALSE]

\* the argument of a data item head: the value and the position after it.
\* Heads of 1, 2 and 3 bytes are read (additional information 0..25).
cbor_argument(b, pos) ==
    LET info == b[pos] % 32 IN
    IF info < 24 THEN [ok |-> TRUE, value |-> info, next |-> pos + 1]
    ELSE IF info = 24 /\ pos + 1 <= Len(b)
    THEN [ok |-> TRUE, value |-> b[pos + 1], next |-> pos + 2]
    ELSE IF info = 25 /\ pos + 2 <= Len(b)
    THEN [ok |-> TRUE, value |-> 256 * b[pos + 1] + b[pos + 2], next |-> pos + 3]
    ELSE CborFail

RECURSIVE cbor_decode_item(_, _)
RECURSIVE cbor_decode_array(_, _, _, _)
RECURSIVE cbor_decode_map(_, _, _, _)

\* count more items of an array, starting at pos
cbor_decode_array(b, pos, count, acc) ==
    IF count = 0 THEN [ok |-> TRUE, value |-> PyList(acc), next |-> pos]
    ELSE CHOOSE result \in
             {IF ~item.ok THEN CborFail
              ELSE cbor_decode_array(b, item.next, count - 1, Append(acc, item.value)) :
                  item \in {cbor_decode_item(b, pos)}} : TRUE

\* count more key/value pairs of a map, starting at pos
cbor_decode_map(b, pos, count, acc) ==
    IF count = 0 THEN [ok |-> TRUE, value |-> PyDict(acc), next |-> pos]
    ELSE CHOOSE result \in
             {IF ~key.ok THEN CborFail
              ELSE CHOOSE result_of_value \in
                       {IF ~val.ok THEN CborFail
                        ELSE cbor_decode_map(b, val.next, count - 1,
                                             dict_set(acc, key.value, val.value)) :
                            val \in {cbor_decode_item(b, key.next)}} : TRUE :
                  key \in {cbor_decode_item(b, pos)}} : TRUE

\* one data item at pos (1-based): unsigned and negative integers, byte and
\* text strings (printable ASCII), arrays, maps, false, true, null and
\* half-precision floats, all of definite length.  Any other head, and an item
\* that runs past the end of the bytes, fails.
cbor_decode_item(b, pos) ==
    IF pos > Len(b) THEN CborFail
    ELSE LET major == b[pos] \div 32
             info == b[pos] % 32
             arg == cbor_argument(b, pos)
         IN  IF major = 7
             THEN CASE info = 20 -> [ok |-> TRUE, value |-> PyBool(FALSE), next |-> pos + 1]
                    [] info = 21 -> [ok |-> TRUE, value |-> PyBool(TRUE), next |-> pos + 1]
                    [] info = 22 -> [ok |-> TRUE, value |-> PyNone, next |-> pos + 1]
                    [] info = 25 /\ arg.ok -> [ok |-> TRUE, value |-> PyFloat(arg.value), next |-> arg.next]
                    [] OTHER -> CborFail
             ELSE IF ~arg.ok THEN CborFail
             ELSE CASE major = 0 -> [ok |-> TRUE, value |-> PyInt(arg.value), next |-> arg.next]
                    [] major = 1 -> [ok |-> TRUE, value |-> PyInt(-1 - arg.value), next |-> arg.next]
                    [] major = 2 ->
                         IF arg.next + arg.value - 1 > Len(b) THEN CborFail
                         ELSE [ok |-> TRUE,
                               value |-> PyBytes(SubSeq(b, arg.next, arg.next + arg.value - 1)),
                               next |-> arg.next + arg.value]
                    [] major = 3 ->
                         IF arg.next + arg.value - 1 > Len(b) THEN CborFail
                         ELSE IF \E i \in arg.next..(arg.next + arg.value - 1) : ~IsAsciiByte(b[i])
                         THEN CborFail
                         ELSE [ok |-> TRUE,
                               value |-> PyStr(text_decode(SubSeq(b, arg.next, arg.next + arg.value - 1))),
                               next |-> arg.next + arg.value]
                    [] major = 4 -> cbor_decode_array(b, arg.next, arg.value, <<>>)
                    [] major = 5 -> cbor_decode_map(b, arg.next, arg.value, <<>>)
                    [] OTHER -> CborFail

\* cbor2.loads(payload): the first data item of the bytes; ok = FALSE stands
\* for the CBORDecodeError it raises
loads(payload) ==
    CHOOSE result \in
        {IF item.ok THEN [ok |-> TRUE, value |-> item.value] ELSE CborFail :
             item \in {cbor_decode_item(payload, 1)}} : TRUE

\* the head of a data item of the given major type with argument n < 2^31
cbor_head(major, n) ==
    IF n < 24 THEN <<32 * major + n>>
    ELSE IF n < 256 THEN <<32 * major + 24, n>>
    ELSE IF n < 65536 THEN <<32 * major + 25, n \div 256, n % 256>>
    ELSE <<32 * major + 26, n \div 16777216, (n \div 65536) % 256, (n \div 256) % 256, n % 256>>

\* cbor2.dumps(x): the bytes a payload value is written as
RECURSIVE dumps(_)
dumps(x) ==
    CASE x.t = "int" -> IF x.i >= 0 THEN cbor_head(0, x.i) ELSE cbor_head(1, -1 - x.i)
      [] x.t = "bool" -> IF x.b THEN <<245>> ELSE <<244>>
      [] x.t = "none" -> <<246>>
      [] x.t = "float" -> <<249, x.f \div 256, x.f % 256>>
      [] x.t = "bytes" -> cbor_head(2, Len(x.y)) \o x.y
      [] x.t = "str" -> cbor_head(3, Len(x.s)) \o text_encode(x.s)
      [] x.t = "list" -> cbor_head(4, Len(x.l)) \o Flatten([i \in 1..Len(x.l) |-> dumps(x.l[i])])
      [] x.t = "dict" ->
           cbor_head(5, Len(x.d))
               \o Flatten([i \in 1..Len(x.d) |-> dumps(x.d[i].k) \o dumps(x.d[i].v)])

(***************************************************************************)
(* Dict sanitizer                                                          *)
(***************************************************************************)
\* lines 174-182: the loop over d.items(), from entry i on.  At the first entry
\* whose value is a dict the function returns what the recursive call on that
\* value returns (line 176); bool passes as an int instance.
RECURSIVE sanitized_entries(_, _, _)
sanitized_entries(entries, i, allow_bytes) ==
    IF i > Len(entries) THEN TRUE
    ELSE LET v == entries[i].v IN
         IF v.t = "dict" THEN sanitized_entries(v.d, 1, allow_bytes)
         ELSE IF ~allow_bytes /\ v.t = "bytes" THEN FALSE
         ELSE IF v.t \notin {"int", "bool", "float", "list", "str", "bytes"} THEN FALSE
         ELSE sanitized_entries(entries, i + 1, allow_bytes)

\* lines 171-182
is_sanitized_dict_whitelist_only(d, allow_bytes) ==
    IF d.t # "dict" THEN FALSE ELSE sanitized_entries(d.d, 1, allow_bytes)

(***************************************************************************)
(* Script tokenizer                                                        *)
(***************************************************************************)
OP_PUSHDATA1 == 76
OP_PUSHDATA2 == 77
OP_PUSHDATA4 == 78
OP_IF == 99
OP_ENDIF == 104
OP_PUSH_32 == 32
MIN_SCRIPT_ENTRY_LEN == 39

\* bytes.fromhex(ATOMICALS_ENVELOPE_MARKER_BYTES): 04 "atom"
ATOMICALS_ENVELOPE_MARKER_BYTES == <<4, 97, 116, 111, 109>>

\* lines 869-887; n is 0-based.  ok = FALSE stands for the IndexError or
\* struct.error raised: by script[n] or the unpack on a truncated length, or
\* by line 885 when the declared length exceeds the rest of the script.
parse_push_data(op, n, script) ==
    LET len == Len(script)
        head ==
            IF op < OP_PUSHDATA1 THEN [ok |-> TRUE, dlen |-> op, n |-> n]
            ELSE IF op = OP_PUSHDATA1
            THEN IF n >= len THEN [ok |-> FALSE]
                 ELSE [ok |-> TRUE, dlen |-> script[n + 1], n |-> n + 1]
            ELSE IF op = OP_PUSHDATA2
            THEN IF n + 2 > len THEN [ok |-> FALSE]
                 ELSE [ok |-> TRUE, dlen |-> script[n + 1] + 256 * script[n + 2], n |-> n + 2]
            ELSE IF n + 4 > len THEN [ok |-> FALSE]
                 ELSE [ok |-> TRUE, dlen |-> unpack_le_uint32_from(Slice(script, n, n + 4)),
                       n |-> n + 4]
    IN  IF ~head.ok THEN [ok |-> FALSE]
        ELSE IF head.n + head.dlen > len THEN [ok |-> FALSE]
        ELSE [ok |-> TRUE, data |-> Slice(script, head.n, head.n + head.dlen),
              n |-> head.n + head.dlen, dlen |-> head.dlen]

\* lines 896-905: the loop of parse_atomicals_data_definition_operation
RECURSIVE data_definition_loop(_, _, _)
data_definition_loop(script, n, accumulated_encoded_bytes) ==
    IF n >= Len(script) THEN [ok |-> TRUE, value |-> accumulated_encoded_bytes]
    ELSE LET op == script[n + 1] IN
         IF op = OP_ENDIF THEN [ok |-> TRUE, value |-> accumulated_encoded_bytes]
         ELSE IF op <= OP_PUSHDATA4
         THEN CHOOSE result \in
                  {IF ~push.ok THEN [ok |-> FALSE]
                   ELSE data_definition_loop(script, push.n,
                                             accumulated_encoded_bytes \o push.data) :
                       push \in {parse_push_data(op, n + 1, script)}} : TRUE
         ELSE data_definition_loop(script, n + 1, accumulated_encoded_bytes)

\* lines 891-907; ok = FALSE stands for the ScriptError of line 907
parse_atomicals_data_definition_operation(script, n) == data_definition_loop(script, n, <<>>)

\* the operation codes of lines 923-958, as bytes: a push of 3, 2 or 1 letters
AtomOpCodes3 ==
    {[bytes |-> <<3, 110, 102, 116>>, op |-> "nft"], [bytes |-> <<3, 100, 102, 116>>, op |-> "dft"],
     [bytes |-> <<3, 109, 111, 100>>, op |-> "mod"], [bytes |-> <<3, 101, 118, 116>>, op |-> "evt"],
     [bytes |-> <<3, 100, 109, 116>>, op |-> "dmt"], [bytes |-> <<3, 100, 97, 116>>, op |-> "dat"]}

AtomOpCodes2 ==
    {[bytes |-> <<2, 102, 116>>, op |-> "ft"], [bytes |-> <<2, 115, 108>>, op |-> "sl"]}

AtomOpCodes1 ==
    {[bytes |-> <<1, 120>>, op |-> "x"], [bytes |-> <<1, 121>>, op |-> "y"]}

\* the operation a table names for the bytes, "none" when it names none
atom_op_decoded(table, bytes) ==
    IF \E e \in table : e.bytes = bytes THEN (CHOOSE e \in table : e.bytes = bytes).op
    ELSE "none"

NoOperationInScript == [state |-> "returned", op |-> "none", payload |-> <<>>]

\* the (operation, payload) returned for a decoded operation, or the
\* ScriptError of the payload parser
operation_with_payload(op, script, n) ==
    CHOOSE result \in
        {IF payload.ok THEN [state |-> "returned", op |-> op, payload |-> payload.value]
         ELSE Raised("ScriptError") :
             payload \in {parse_atomicals_data_definition_operation(script, n)}} : TRUE

\* lines 910-964; n is 0-based
parse_operation_from_script(script, n) ==
    LET script_len == Len(script)
        op3 == IF n + 4 < script_len THEN atom_op_decoded(AtomOpCodes3, Slice(script, n, n + 4))
               ELSE "none"
        op2 == IF n + 3 < script_len THEN atom_op_decoded(AtomOpCodes2, Slice(script, n, n + 3))
               ELSE "none"
        op1 == IF n + 2 < script_len THEN atom_op_decoded(AtomOpCodes1, Slice(script, n, n + 2))
               ELSE "none"
    IN  IF op3 # "none" THEN operation_with_payload(op3, script, n + 4)
        ELSE IF op2 # "none" THEN operation_with_payload(op2, script, n + 3)
        ELSE IF op1 # "none" THEN operation_with_payload(op1, script, n + 2)
        ELSE NoOperationInScript

\* the inner loop looking at the byte right behind the key only
envelope_loop_behind_key_only(script, n) ==
    IF n >= Len(script) - 5 THEN [found |-> FALSE, result |-> NoOperationInScript, n |-> n]
    ELSE IF script[n + 1] = OP_IF /\ Slice(script, n + 1, n + 6) = ATOMICALS_ENVELOPE_MARKER_BYTES
    THEN [found |-> TRUE, result |-> parse_operation_from_script(script, n + 6), n |-> n + 1]
    ELSE [found |-> FALSE, result |-> NoOperationInScript, n |-> Len(script)]

\* lines 1018-1031: the inner loop, looking from n on for an OP_IF followed by
\* the envelope marker.  found: the marker was seen; result: what the function
\* returns or raises at once, None when the loop ends or breaks; n: where the
\* loop stopped.
RECURSIVE envelope_loop(_, _)
envelope_loop(script, n) ==
    IF n >= Len(script) - 5 THEN [found |-> FALSE, result |-> NoOperationInScript, n |-> n]
    ELSE IF script[n + 1] = OP_IF /\ Slice(script, n + 1, n + 6) = ATOMICALS_ENVELOPE_MARKER_BYTES
    THEN [found |-> TRUE, result |-> parse_operation_from_script(script, n + 6), n |-> n + 1]
    ELSE envelope_loop(script, n + 1)

\* lines 1012-1035: the outer loop over the bytes of one witness element
RECURSIVE script_loop(_, _)
script_loop(script, n) ==
    IF n >= Len(script) - 5 THEN NoOperationInScript
    ELSE IF script[n + 1] = OP_PUSH_32 /\ n + 1 + 32 <= Len(script)
    THEN CHOOSE result \in
             {IF inner.found THEN inner.result ELSE script_loop(script, inner.n) :
                  inner \in {envelope_loop(script, n + 1 + 32)}} : TRUE
    ELSE NoOperationInScript

\* lines 1007-1035: what one witness element yields: an operation and its
\* payload, nothing (op "none": the loop goes on to the next element), or the
\* ScriptError that leaves the function
scan_witness_script(script) ==
    IF Len(script) < MIN_SCRIPT_ENTRY_LEN \/ script[1] # OP_PUSH_32 THEN NoOperationInScript
    ELSE script_loop(script, 0)

\* the loop of line 1006 stopping at the first element with an envelope,
\* whether or not its operation code is known
RECURSIVE witness_loop_stop_at_envelope(_, _)
witness_loop_stop_at_envelope(txinwitness, i) ==
    IF i > Len(txinwitness) THEN NoOperationInScript @@ [examined |-> Len(txinwitness)]
    ELSE LET script == txinwitness[i]
             envelope == /\ Len(script) >= MIN_SCRIPT_ENTRY_LEN
                         /\ script[1] = OP_PUSH_32
                         /\ envelope_loop(script, 33).found
         IN  CHOOSE result \in
                 {IF found.state = "raised" \/ found.op # "none" \/ envelope
                  THEN found @@ [examined |-> i]
                  ELSE witness_loop_stop_at_envelope(txinwitness, i + 1) :
                      found \in {scan_witness_script(script)}} : TRUE

\* lines 1006-1036: the loop over the witness elements of one input, from the
\* i-th on; examined counts the elements the loop has looked at
RECURSIVE witness_loop(_, _)
witness_loop(txinwitness, i) ==
    IF i > Len(txinwitness) THEN NoOperationInScript @@ [examined |-> Len(txinwitness)]
    ELSE CHOOSE result \in
             {IF found.state = "raised" \/ found.op # "none" THEN found @@ [examined |-> i]
              ELSE witness_loop(txinwitness, i + 1) :
                  found \in {scan_witness_script(txinwitness[i])}} : TRUE

\* lines 1003-1036
parse_protocols_operations_from_witness_for_input(txinwitness) == witness_loop(txinwitness, 1)

\* the shortest script with a payment marker: 6a 04 "atom" 01 "p" 24 <id>
OP_RETURN == 106
PAYMENT_MARKER_ID_LEN == 36
PAYMENT_MARKER_MIN_LEN == 45

NoPaymentMarker == [state |-> "returned", found |-> FALSE]

\* lines 967-999
is_op_return_payment_marker_atomical_id(script) ==
    CHOOSE result \in
        {IF Len(script) = 0 THEN NoPaymentMarker
         ELSE IF Len(script) < PAYMENT_MARKER_MIN_LEN THEN NoPaymentMarker
         ELSE IF second_bytes # <<0, OP_RETURN>> /\ first_byte # <<OP_RETURN>>
         THEN NoPaymentMarker
         ELSE IF bytes_hex(Slice(script, start_index, start_index + 5))
                     # bytes_hex(ATOMICALS_ENVELOPE_MARKER_BYTES)
         THEN NoPaymentMarker
         ELSE IF bytes_hex(Slice(script, start_index + 5, start_index + 5 + 2))
                     # <<"0", "1", "7", "0">>
         THEN NoPaymentMarker
         ELSE IF bytes_hex(Slice(script, start_index + 5 + 2, start_index + 5 + 2 + 1))
                     # <<"2", "4">>
         THEN NoPaymentMarker
         ELSE [state |-> "returned", found |-> TRUE,
               value |-> Slice(script, start_index + 5 + 2 + 1,
                               start_index + 5 + 2 + 1 + PAYMENT_MARKER_ID_LEN)] :
             first_byte \in {Slice(script, 0, 1)},
             second_bytes \in {Slice(script, 0, 2)},
             start_index \in {IF Slice(script, 0, 2) = <<0, OP_RETURN>> THEN 2 ELSE 1}} : TRUE

(***************************************************************************)
(* Operations of a transaction                                             *)
(***************************************************************************)
NoOperationInTx == [state |-> "returned", op |-> "none"]

\* lines 1075-1088: the operation returned for the input at txin_idx (0-based)
operation_struct(tx, tx_hash, op_name, decoded_object, payload, txin_idx) ==
    LET associated_txin == tx.inputs[txin_idx + 1]
        prev_tx_hash == associated_txin.prev_hash
        prev_idx == associated_txin.prev_idx
    IN  [state |-> "returned",
         op |-> op_name,
         payload |-> decoded_object,
         payload_bytes |-> payload,
         input_index |-> txin_idx,
         commit_txid |-> prev_tx_hash,
         commit_index |-> prev_idx,
         commit_location |-> prev_tx_hash \o pack_le_uint32(prev_idx),
         reveal_location_txid |-> tx_hash,
         reveal_location_index |-> 0]

\* line 1063: meta, args and ctx without bytes, init with bytes allowed; a
\* field that is absent counts as the empty dict
payload_fields_sanitized(decoded_object) ==
    LET field(name) == LET v == dict_get(decoded_object, PyStr(name))
                       IN  IF \E e \in 1..Len(decoded_object.d) : decoded_object.d[e].k = PyStr(name)
                           THEN v ELSE PyDict(<<>>)
    IN  /\ is_sanitized_dict_whitelist_only(field(<<"m", "e", "t", "a">>), FALSE)
        /\ is_sanitized_dict_whitelist_only(field(<<"a", "r", "g", "s">>), FALSE)
        /\ is_sanitized_dict_whitelist_only(field(<<"c", "t", "x">>), FALSE)
        /\ is_sanitized_dict_whitelist_only(field(<<"i", "n", "i", "t">>), TRUE)

\* the loop of the transaction parser giving up at the first payload that is
\* no CBOR map (return where the code has continue)
RECURSIVE witness_array_loop_stop_at_bad_payload(_, _, _, _)
witness_array_loop_stop_at_bad_payload(tx, tx_hash, i, txin_idx) ==
    IF i > Len(tx.witness) THEN NoOperationInTx
    ELSE CHOOSE result \in
             {IF found.state = "raised" THEN Raised(found.error)
              ELSE IF found.op = "none"
              THEN witness_array_loop_stop_at_bad_payload(tx, tx_hash, i + 1, txin_idx)
              ELSE IF Len(found.payload) = 0
              THEN witness_array_loop_stop_at_bad_payload(tx, tx_hash, i + 1, txin_idx + 1)
              ELSE CHOOSE result_with_payload \in
                       {IF ~decoded_object.ok \/ decoded_object.value.t # "dict"
                        THEN NoOperationInTx
                        ELSE IF ~payload_fields_sanitized(decoded_object.value)
                        THEN witness_array_loop_stop_at_bad_payload(tx, tx_hash, i + 1, txin_idx)
                        ELSE operation_struct(tx, tx_hash, found.op, decoded_object.value,
                                              found.payload, txin_idx) :
                            decoded_object \in {loads(found.payload)}} : TRUE :
                  found \in {parse_protocols_operations_from_witness_for_input(tx.witness[i])}} : TRUE

\* lines 1044-1090: the loop over tx.witness from the i-th input on, with the
\* counter txin_idx as the code keeps it: the `continue` statements of lines
\* 1048, 1056, 1059 and 1065 go to the next input without passing line 1089.
\* A ScriptError raised by the scan of an input leaves the function.
RECURSIVE witness_array_loop(_, _, _, _)
witness_array_loop(tx, tx_hash, i, txin_idx) ==
    IF i > Len(tx.witness) THEN NoOperationInTx
    ELSE CHOOSE result \in
             {IF found.state = "raised" THEN Raised(found.error)
              ELSE IF found.op = "none" THEN witness_array_loop(tx, tx_hash, i + 1, txin_idx)
              ELSE IF Len(found.payload) = 0
              THEN witness_array_loop(tx, tx_hash, i + 1, txin_idx + 1)
              ELSE CHOOSE result_with_payload \in
                       {IF ~decoded_object.ok \/ decoded_object.value.t # "dict"
                        THEN witness_array_loop(tx, tx_hash, i + 1, txin_idx)
                        ELSE IF ~payload_fields_sanitized(decoded_object.value)
                        THEN witness_array_loop(tx, tx_hash, i + 1, txin_idx)
                        ELSE operation_struct(tx, tx_hash, found.op, decoded_object.value,
                                              found.payload, txin_idx) :
                            decoded_object \in {loads(found.payload)}} : TRUE :
                  found \in {parse_protocols_operations_from_witness_for_input(tx.witness[i])}} : TRUE

\* lines 1039-1090; a transaction without witness data gives the empty dict
parse_protocols_operations_from_witness_array(tx, tx_hash) ==
    IF ~tx.has_witness THEN [state |-> "returned", op |-> "none", empty_dict |-> TRUE]
    ELSE witness_array_loop(tx, tx_hash, 1, 0)

(***************************************************************************)
(* Names, tickers and compact ids                                          *)
(***************************************************************************)
NAME_MAX_LEN == 64
TICKER_MAX_LEN == 21

LowerAlpha ==
    {"a", "b", "c", "d", "e", "f", "g", "h", "i", "j", "k", "l", "m",
     "n", "o", "p", "q", "r", "s", "t", "u", "v", "w", "x", "y", "z"}

\* re.compile(r'^[F][R]{0,max_len-1}$').match(s) for a first-character class
\* F and a class R of the characters after it: `$` also matches just before a
\* newline that ends the string
name_regex_match(s, first, rest, max_len) ==
    LET n == Len(s)
        core == IF n > 0 /\ s[n] = "\n" THEN SubSeq(s, 1, n - 1) ELSE s
    IN  /\ Len(core) >= 1
        /\ Len(core) <= max_len
        /\ core[1] \in first
        /\ \A i \in 2..Len(core) : core[i] \in rest

\* lines 808-814; returns None for a falsy ticker, else True or False
is_valid_ticker_string(ticker) ==
    IF ~truthy(ticker) THEN PyNone
    ELSE PyBool(name_regex_match(ticker.s, LowerAlnum, LowerAlnum, TICKER_MAX_LEN))

\* lines 817-833
is_valid_namebase_string_name(realm_or_subrealm_name) ==
    IF ~truthy(realm_or_subrealm_name) THEN FALSE
    ELSE IF realm_or_subrealm_name.t # "str" THEN FALSE
    ELSE IF Len(realm_or_subrealm_name.s) > NAME_MAX_LEN THEN FALSE
    ELSE IF realm_or_subrealm_name.s[1] = "-" THEN FALSE
    ELSE IF realm_or_subrealm_name.s[Len(realm_or_subrealm_name.s)] = "-" THEN FALSE
    ELSE TRUE

\* is_valid_realm_string_name accepting a digit as the first character
is_valid_realm_string_name_any_first(realm_name) ==
    IF ~is_valid_namebase_string_name(realm_name) THEN FALSE
    ELSE name_regex_match(realm_name.s, LowerAlnum, LowerAlnum \cup {"-"}, NAME_MAX_LEN)

\* lines 837-844
is_valid_realm_string_name(realm_name) ==
    IF ~is_valid_namebase_string_name(realm_name) THEN FALSE
    ELSE name_regex_match(realm_name.s, LowerAlpha, LowerAlnum \cup {"-"}, NAME_MAX_LEN)

\* lines 848-855
is_valid_subrealm_string_name(subrealm_name) ==
    IF ~is_valid_namebase_string_name(subrealm_name) THEN FALSE
    ELSE name_regex_match(subrealm_name.s, LowerAlnum, LowerAlnum \cup {"-"}, NAME_MAX_LEN)

\* lines 859-866
is_valid_container_string_name(container_name) ==
    IF ~is_valid_namebase_string_name(container_name) THEN FALSE
    ELSE name_regex_match(container_name.s, LowerAlnum, LowerAlnum \cup {"-"}, NAME_MAX_LEN)

\* lines 221-234; value is any Python value.  value.find exists for str only:
\* bytes.find("i") raises TypeError, the other types have no find
\* (AttributeError); hex_str_to_hash raises ValueError on text that is no hex.
is_compact_atomical_id(value) ==
    IF isinstance_int(value) THEN [state |-> "returned", value |-> FALSE]
    ELSE IF value.t = "none" THEN [state |-> "returned", value |-> FALSE]
    ELSE IF value.t = "bytes" THEN Raised("TypeError")
    ELSE IF value.t # "str" THEN Raised("AttributeError")
    ELSE IF Len(value.s) = 0 THEN [state |-> "returned", value |-> FALSE]
    ELSE IF str_find(value.s, "i") # COMPACT_ID_INDEX_OF_I
    THEN [state |-> "returned", value |-> FALSE]
    ELSE LET raw_hash == hex_str_to_hash(SubSeq(value.s, 1, COMPACT_ID_INDEX_OF_I))
         IN  IF ~raw_hash.ok THEN Raised("ValueError")
             ELSE [state |-> "returned", value |-> Len(raw_hash.value) = 32]

(***************************************************************************)
(* Mint information                                                        *)
(***************************************************************************)
MIN_NAME_BITWORK_PREFIX_LEN == 4
DFT_MINT_AMOUNT_MIN == 546
DFT_MINT_AMOUNT_MAX == 100000000
DFT_MINT_MAX_MIN_COUNT == 1
DFT_MINT_MAX_MAX_COUNT == 100000
DFT_MINT_HEIGHT_MIN == 0
DFT_MINT_HEIGHT_MAX == 10000000

\* the keys of args that the mint reads
K_args == PyStr(<<"a", "r", "g", "s">>)
K_meta == PyStr(<<"m", "e", "t", "a">>)
K_ctx == PyStr(<<"c", "t", "x">>)
K_init == PyStr(<<"i", "n", "i", "t">>)
K_bitworkc == PyStr(<<"b", "i", "t", "w", "o", "r", "k", "c">>)
K_bitworkr == PyStr(<<"b", "i", "t", "w", "o", "r", "k", "r">>)
K_request_realm == PyStr(<<"r", "e", "q", "u", "e", "s", "t", "_", "r", "e", "a", "l", "m">>)
K_request_subrealm == PyStr(<<"r", "e", "q", "u", "e", "s", "t", "_", "s", "u", "b", "r", "e", "a", "l", "m">>)
K_request_container == PyStr(<<"r", "e", "q", "u", "e", "s", "t", "_", "c", "o", "n", "t", "a", "i", "n", "e", "r">>)
K_request_ticker == PyStr(<<"r", "e", "q", "u", "e", "s", "t", "_", "t", "i", "c", "k", "e", "r">>)
K_parents == PyStr(<<"p", "a", "r", "e", "n", "t", "s">>)
K_claim_type == PyStr(<<"c", "l", "a", "i", "m", "_", "t", "y", "p", "e">>)
K_parent_realm == PyStr(<<"p", "a", "r", "e", "n", "t", "_", "r", "e", "a", "l", "m">>)
K_mint_height == PyStr(<<"m", "i", "n", "t", "_", "h", "e", "i", "g", "h", "t">>)
K_mint_amount == PyStr(<<"m", "i", "n", "t", "_", "a", "m", "o", "u", "n", "t">>)
K_max_mints == PyStr(<<"m", "a", "x", "_", "m", "i", "n", "t", "s">>)
K_mint_bitworkc == PyStr(<<"m", "i", "n", "t", "_", "b", "i", "t", "w", "o", "r", "k", "c">>)
K_mint_bitworkr == PyStr(<<"m", "i", "n", "t", "_", "b", "i", "t", "w", "o", "r", "k", "r">>)

\* dict.get(key, {}): the value stored under key, the empty dict when there
\* is none
dict_get_or_empty(d, key) ==
    CHOOSE value \in
        {IF \E i \in 1..Len(entries) : entries[i].k = key
         THEN entries[CHOOSE i \in 1..Len(entries) : entries[i].k = key].v
         ELSE PyDict(<<>>) : entries \in {d.d}} : TRUE

PowNotRequested == [state |-> "returned", is_pow_requested |-> FALSE, has_result |-> FALSE]
PowInvalid == [state |-> "returned", is_pow_requested |-> TRUE, has_result |-> FALSE]

\* lines 405-411 and 414-420: one requested bitwork string against one txid;
\* pow is the string when it is valid and the txid satisfies it
requested_pow(request_pow, txid) ==
    CHOOSE result \in
        {IF ~truthy(requested) THEN [state |-> "returned", ok |-> TRUE, pow |-> PyNone]
         ELSE CHOOSE checked \in
                  {IF ~parts.accepted THEN [state |-> "returned", ok |-> FALSE, pow |-> PyNone]
                   ELSE CHOOSE matched \in
                            {IF match.state = "raised" THEN match
                             ELSE [state |-> "returned", ok |-> match.value,
                                   pow |-> IF match.value THEN requested ELSE PyNone] :
                                 match \in {is_proof_of_work_prefix_match(txid, parts.prefix,
                                                                          parts.ext)}} : TRUE :
                       parts \in {is_valid_bitwork_string(requested)}} : TRUE :
             requested \in {request_pow}} : TRUE

\* requested_pow taking a valid bitwork string for a satisfied one
requested_pow_unmatched(request_pow, txid) ==
    CHOOSE result \in
        {IF ~truthy(requested) THEN [state |-> "returned", ok |-> TRUE, pow |-> PyNone]
         ELSE CHOOSE checked \in
                  {[state |-> "returned", ok |-> parts.accepted,
                    pow |-> IF parts.accepted THEN requested ELSE PyNone] :
                       parts \in {is_valid_bitwork_string(requested)}} : TRUE :
             requested \in {request_pow}} : TRUE

\* has_requested_proof_of_work taking a valid bitwork string for a satisfied one
has_requested_proof_of_work_unmatched(operations_found_at_inputs) ==
    IF operations_found_at_inputs.op = "none" THEN PowNotRequested
    ELSE CHOOSE result \in
        {IF args.t # "dict" THEN PowNotRequested
         ELSE CHOOSE requested \in
                  {IF ~commit.ok \/ ~reveal.ok THEN PowInvalid
                   ELSE [state |-> "returned", is_pow_requested |-> TRUE,
                         has_result |-> TRUE,
                         request_pow_commit |-> dict_get(args, K_bitworkc),
                         request_pow_reveal |-> dict_get(args, K_bitworkr),
                         pow_commit |-> commit.pow,
                         pow_reveal |-> reveal.pow] :
                       commit \in {requested_pow_unmatched(
                                      dict_get(args, K_bitworkc),
                                      operations_found_at_inputs.commit_txid)},
                       reveal \in {requested_pow_unmatched(
                                      dict_get(args, K_bitworkr),
                                      operations_found_at_inputs.reveal_location_txid)}} : TRUE :
             args \in {dict_get(operations_found_at_inputs.payload, K_args)}} : TRUE

\* lines 389-427
has_requested_proof_of_work(operations_found_at_inputs) ==
    IF operations_found_at_inputs.op = "none" THEN PowNotRequested
    ELSE CHOOSE result \in
        {IF args.t # "dict" THEN PowNotRequested
         ELSE CHOOSE requested \in
                  {IF commit.state = "raised" THEN commit
                   ELSE IF ~commit.ok THEN PowInvalid
                   ELSE CHOOSE both \in
                            {IF reveal.state = "raised" THEN reveal
                             ELSE IF ~reveal.ok THEN PowInvalid
                             ELSE [state |-> "returned", is_pow_requested |-> TRUE,
                                   has_result |-> TRUE,
                                   request_pow_commit |-> dict_get(args, K_bitworkc),
                                   request_pow_reveal |-> dict_get(args, K_bitworkr),
                                   pow_commit |-> commit.pow,
                                   pow_reveal |-> reveal.pow] :
                                 reveal \in {requested_pow(
                                                dict_get(args, K_bitworkr),
                                                operations_found_at_inputs.reveal_location_txid)}} : TRUE :
                       commit \in {requested_pow(dict_get(args, K_bitworkc),
                                                 operations_found_at_inputs.commit_txid)}} : TRUE :
             args \in {dict_get(operations_found_at_inputs.payload, K_args)}} : TRUE

\* the spent-input records of all inputs, in the order the loops of lines
\* 435-436 visit them
RECURSIVE spent_entries(_)
spent_entries(atomicals_spent_at_inputs) ==
    IF Len(atomicals_spent_at_inputs) = 0 THEN <<>>
    ELSE Head(atomicals_spent_at_inputs).entries \o spent_entries(Tail(atomicals_spent_at_inputs))

\* lines 432-451.  Line 442 reads HASHX_LEN and SCRIPTHASH_LEN, which the
\* module neither defines nor imports: the first record with the parent's id
\* raises NameError, so the sum of lines 443-451 is never compared; with no
\* such record total_sum is None and the function returns False.
get_if_parent_spent_in_same_tx(parent_atomical_id_compact, expected_minimum_total_value, atomicals_spent_at_inputs) ==
    CHOOSE result \in
        {IF parent_atomical_id.state = "raised" THEN parent_atomical_id
         ELSE IF \E i \in 1..Len(entries) : entries[i].atomical_id = parent_atomical_id.value
         THEN Raised("NameError")
         ELSE [state |-> "returned", value |-> FALSE] :
             parent_atomical_id \in {compact_to_location_id_bytes(parent_atomical_id_compact)},
             entries \in {spent_entries(atomicals_spent_at_inputs)}} : TRUE

NoMint == [state |-> "returned", type |-> "none"]

\* lines 459-490: the base mint information; the imprinted output is the
\* first one.  The fields ref, reveal_location_scripthash and
\* reveal_location_hashX (krock32, double_sha256, coin.hashX_from_script) are
\* left out: no gate reads them.
build_base_mint_info(tx, commit_txid, commit_index, reveal_location_txid, reveal_location_index) ==
    [id |-> commit_txid \o pack_le_uint32(commit_index),
     atomical_id |-> commit_txid \o pack_le_uint32(commit_index),
     commit_txid |-> commit_txid,
     commit_index |-> commit_index,
     commit_location |-> commit_txid \o pack_le_uint32(commit_index),
     reveal_location_txid |-> reveal_location_txid,
     reveal_location_index |-> reveal_location_index,
     reveal_location |-> reveal_location_txid \o pack_le_uint32(reveal_location_index),
     reveal_location_value |-> tx.outputs[1].value,
     reveal_location_script |-> tx.outputs[1].pk_script]

\* lines 495-518: whether meta, args, ctx and init are dicts (absent counts
\* as the empty dict)
populate_args_meta_ctx_init_ok(op_found_payload) ==
    \A key \in {K_meta, K_args, K_ctx, K_init} : dict_get_or_empty(op_found_payload, key).t = "dict"

\* lines 514-517
populate_args_meta_ctx_init(mint_info, op_found_payload) ==
    [key \in {"args", "ctx", "meta", "init"} |->
         dict_get_or_empty(op_found_payload,
                           CASE key = "args" -> K_args [] key = "ctx" -> K_ctx
                             [] key = "meta" -> K_meta [] key = "init" -> K_init)] @@ mint_info

\* is_valid_bitwork_string(x) as lines 695-696, 722-723 and 741-742 use it:
\* whether the string is valid
bitwork_string_ok(x) == is_valid_bitwork_string(x).accepted

\* mint_info with value under key when the value is truthy
with_truthy(mint_info, key, value) ==
    CHOOSE info \in {IF truthy(v) THEN (key :> v) @@ mint_info ELSE mint_info : v \in {value}} : TRUE

\* lines 739-753: bitworkr, the commit location assertion and the result
mint_info_bitworkr(op_found_struct, mint_info) ==
    CHOOSE result \in
        {IF truthy(request_pow_reveal) /\ ~bitwork_string_ok(request_pow_reveal) THEN NoMint
         ELSE IF op_found_struct.commit_location
                     # op_found_struct.commit_txid \o pack_le_uint32(op_found_struct.commit_index)
         THEN Raised("AssertionError")
         ELSE [state |-> "returned", type |-> info.type,
               mint_info |-> with_truthy(info, "$bitworkr", request_pow_reveal)] :
             info \in {mint_info},
             request_pow_reveal \in {dict_get(mint_info.args, K_bitworkr)}} : TRUE

\* mint_info_bitworkc without the prefix length gate of lines 724-727
mint_info_bitworkc_any_length(op_found_struct, mint_info, is_name_type_require_bitwork) ==
    CHOOSE result \in
        {IF "type" \notin DOMAIN info THEN NoMint
         ELSE IF truthy(request_pow_commit) /\ ~parts.accepted THEN NoMint
         ELSE IF is_name_type_require_bitwork /\ ~truthy(request_pow_commit) THEN NoMint
         ELSE mint_info_bitworkr(op_found_struct, with_truthy(info, "$bitworkc", request_pow_commit)) :
             info \in {mint_info},
             request_pow_commit \in {dict_get(mint_info.args, K_bitworkc)},
             parts \in {is_valid_bitwork_string(dict_get(mint_info.args, K_bitworkc))}} : TRUE

\* lines 712-737: a mint has a type; bitworkc, which a realm, a container
\* and a ticker require with a prefix of 4 characters or more
mint_info_bitworkc(op_found_struct, mint_info, is_name_type_require_bitwork) ==
    CHOOSE result \in
        {IF "type" \notin DOMAIN info THEN NoMint
         ELSE IF truthy(request_pow_commit) /\ ~parts.accepted THEN NoMint
         ELSE IF /\ truthy(request_pow_commit)
                 /\ is_name_type_require_bitwork
                 /\ Len(parts.prefix) < MIN_NAME_BITWORK_PREFIX_LEN
         THEN NoMint
         ELSE IF is_name_type_require_bitwork /\ ~truthy(request_pow_commit) THEN NoMint
         ELSE mint_info_bitworkr(op_found_struct, with_truthy(info, "$bitworkc", request_pow_commit)) :
             info \in {mint_info},
             request_pow_commit \in {dict_get(mint_info.args, K_bitworkc)},
             parts \in {is_valid_bitwork_string(dict_get(mint_info.args, K_bitworkc))}} : TRUE

Rejected == [state |-> "returned", ok |-> FALSE]
Accepted(mint_info) == [state |-> "returned", ok |-> TRUE, mint_info |-> mint_info]

\* lines 618-643: the subrealm branch of an nft
mint_info_nft_subrealm(mint_info, subrealm) ==
    CHOOSE result \in
        {IF ~is_valid_subrealm_string_name(subrealm) THEN Rejected
         ELSE IF claim_type.t # "str" THEN Rejected
         ELSE IF claim_type.s # <<"d", "i", "r", "e", "c", "t">> /\ claim_type.s # <<"r", "u", "l", "e">>
         THEN Rejected
         ELSE IF parent_realm_id_compact.t # "str" THEN Rejected
         ELSE CHOOSE checked \in
                  {IF compact.state = "raised" THEN compact
                   ELSE IF ~compact.value THEN Rejected
                   ELSE Accepted(("$request_subrealm" :> subrealm)
                                     @@ ("$parent_realm" :> parent_realm_id_compact)
                                     @@ mint_info) :
                       compact \in {is_compact_atomical_id(parent_realm_id_compact)}} : TRUE :
             claim_type \in {dict_get(mint_info.args, K_claim_type)},
             parent_realm_id_compact \in {dict_get(mint_info.args, K_parent_realm)}} : TRUE

\* mint_info_nft with the chain of lines 612-649 keyed on the ticker as well
mint_info_nft_with_ticker(mint_info) ==
    CHOOSE result \in
        {IF realm.t = "str"
         THEN IF is_valid_realm_string_name(realm)
              THEN Accepted(("$request_realm" :> realm) @@ typed) ELSE Rejected
         ELSE IF subrealm.t = "str" THEN mint_info_nft_subrealm(typed, subrealm)
         ELSE IF container.t = "str"
         THEN IF is_valid_container_string_name(container)
              THEN Accepted(("$request_container" :> container) @@ typed) ELSE Rejected
         ELSE IF ticker.t = "str" THEN Accepted(("$request_ticker" :> ticker) @@ typed)
         ELSE Accepted(typed) :
             realm \in {dict_get(mint_info.args, K_request_realm)},
             subrealm \in {dict_get(mint_info.args, K_request_subrealm)},
             container \in {dict_get(mint_info.args, K_request_container)},
             ticker \in {dict_get(mint_info.args, K_request_ticker)},
             typed \in {[type |-> "NFT"] @@ mint_info}} : TRUE

\* lines 608-649
mint_info_nft(mint_info) ==
    CHOOSE result \in
        {IF realm.t = "str"
         THEN IF is_valid_realm_string_name(realm)
              THEN Accepted(("$request_realm" :> realm) @@ typed) ELSE Rejected
         ELSE IF subrealm.t = "str" THEN mint_info_nft_subrealm(typed, subrealm)
         ELSE IF container.t = "str"
         THEN IF is_valid_container_string_name(container)
              THEN Accepted(("$request_container" :> container) @@ typed) ELSE Rejected
         ELSE Accepted(typed) :
             realm \in {dict_get(mint_info.args, K_request_realm)},
             subrealm \in {dict_get(mint_info.args, K_request_subrealm)},
             container \in {dict_get(mint_info.args, K_request_container)},
             typed \in {[type |-> "NFT"] @@ mint_info}} : TRUE

\* lines 658-661 and 666-669: `not isinstance(ticker, str) or not
\* is_valid_ticker_string(ticker)`
ticker_ok(ticker) == \E t \in {ticker} : t.t = "str" /\ truthy(is_valid_ticker_string(t))

\* lines 656-662
mint_info_ft(mint_info) ==
    CHOOSE result \in
        {IF ~ticker_ok(ticker) THEN Rejected
         ELSE Accepted([type |-> "FT", subtype |-> "direct"]
                           @@ ("$request_ticker" :> ticker) @@ mint_info) :
             ticker \in {dict_get(mint_info.args, K_request_ticker)}} : TRUE

\* `not isinstance(x, int) or x < lo or x > hi` of lines 673, 678 and 683
int_within(x, lo, hi) ==
    \E v \in {x} : isinstance_int(v) /\ int_value(v) >= lo /\ int_value(v) <= hi

\* lines 664-710
mint_info_dft(mint_info) ==
    CHOOSE result \in
        {IF ~ticker_ok(ticker) THEN Rejected
         ELSE IF ~int_within(mint_height, DFT_MINT_HEIGHT_MIN, DFT_MINT_HEIGHT_MAX) THEN Rejected
         ELSE IF ~int_within(mint_amount, DFT_MINT_AMOUNT_MIN, DFT_MINT_AMOUNT_MAX) THEN Rejected
         ELSE IF ~int_within(max_mints, DFT_MINT_MAX_MIN_COUNT, DFT_MINT_MAX_MAX_COUNT) THEN Rejected
         ELSE IF truthy(mint_pow_commit) /\ ~bitwork_string_ok(mint_pow_commit) THEN Rejected
         ELSE IF truthy(mint_pow_reveal) /\ ~bitwork_string_ok(mint_pow_reveal) THEN Rejected
         ELSE Accepted(with_truthy(with_truthy(
                  [type |-> "FT", subtype |-> "decentralized"]
                      @@ ("$request_ticker" :> ticker) @@ ("$mint_height" :> mint_height)
                      @@ ("$mint_amount" :> mint_amount) @@ ("$max_mints" :> max_mints)
                      @@ mint_info,
                  "$mint_bitworkc", mint_pow_commit), "$mint_bitworkr", mint_pow_reveal)) :
             ticker \in {dict_get(mint_info.args, K_request_ticker)},
             mint_height \in {dict_get(mint_info.args, K_mint_height)},
             mint_amount \in {dict_get(mint_info.args, K_mint_amount)},
             max_mints \in {dict_get(mint_info.args, K_max_mints)},
             mint_pow_commit \in {dict_get(mint_info.args, K_mint_bitworkc)},
             mint_pow_reveal \in {dict_get(mint_info.args, K_mint_bitworkr)}} : TRUE

\* lines 607-713: the mint by operation type; only an operation at input 0
\* gives the mint a type
mint_info_by_type(op_found_struct, mint_info, is_name_type_require_bitwork) ==
    CHOOSE result \in
        {IF typed.state = "raised" THEN typed
         ELSE IF ~typed.ok THEN NoMint
         ELSE mint_info_bitworkc(op_found_struct, typed.mint_info, is_name_type_require_bitwork) :
             typed \in {IF op_found_struct.op = "nft" /\ op_found_struct.input_index = 0
                        THEN mint_info_nft(mint_info)
                        ELSE IF op_found_struct.op = "ft" /\ op_found_struct.input_index = 0
                        THEN mint_info_ft(mint_info)
                        ELSE IF op_found_struct.op = "dft" /\ op_found_struct.input_index = 0
                        THEN mint_info_dft(mint_info)
                        ELSE Accepted(mint_info)}} : TRUE

\* lines 585-599: the declared parents from the i-th on; ok when each is a
\* compact id with a non-negative int minimum that the spent inputs cover
RECURSIVE parents_loop(_, _, _)
parents_loop(parents_enforced, i, atomicals_spent_at_inputs) ==
    IF i > Len(parents_enforced.d) THEN [state |-> "returned", ok |-> TRUE]
    ELSE CHOOSE result \in
        {IF compact.state = "raised" THEN compact
         ELSE IF ~compact.value THEN Rejected
         ELSE IF ~isinstance_int(value) \/ int_value(value) < 0 THEN Rejected
         ELSE CHOOSE spent \in
                  {IF found_parent.state = "raised" THEN found_parent
                   ELSE IF ~found_parent.value THEN Rejected
                   ELSE parents_loop(parents_enforced, i + 1, atomicals_spent_at_inputs) :
                       found_parent \in {get_if_parent_spent_in_same_tx(
                                            parent_atomical_id.s, value,
                                            atomicals_spent_at_inputs)}} : TRUE :
             parent_atomical_id \in {parents_enforced.d[i].k},
             value \in {parents_enforced.d[i].v},
             compact \in {is_compact_atomical_id(parents_enforced.d[i].k)}} : TRUE

\* lines 567-600, then the rest of the function
mint_info_parents(op_found_struct, mint_info, is_name_type_require_bitwork, atomicals_spent_at_inputs) ==
    CHOOSE result \in
        {IF ~truthy(parents_enforced)
         THEN mint_info_by_type(op_found_struct, info, is_name_type_require_bitwork)
         ELSE IF parents_enforced.t # "dict" THEN NoMint
         ELSE IF Len(atomicals_spent_at_inputs) = 0 THEN NoMint
         ELSE CHOOSE checked \in
                  {IF parents.state = "raised" THEN parents
                   ELSE IF ~parents.ok THEN NoMint
                   ELSE mint_info_by_type(op_found_struct,
                                          ("$parents" :> parents_enforced) @@ info,
                                          is_name_type_require_bitwork) :
                       parents \in {parents_loop(parents_enforced, 1,
                                                 atomicals_spent_at_inputs)}} : TRUE :
             info \in {mint_info},
             parents_enforced \in {dict_get(mint_info.args, K_parents)}} : TRUE

\* the number of truthy values among the four requested names
request_count(args) ==
    Cardinality({k \in {K_request_realm, K_request_subrealm, K_request_container,
                        K_request_ticker} : truthy(dict_get(args, k))})

\* mint_info_names rejecting only more than two requested names
mint_info_names_up_to_two(op_found_struct, mint_info, atomicals_spent_at_inputs) ==
    CHOOSE result \in
        {IF request_count(info.args) > 2 THEN NoMint
         ELSE mint_info_parents(op_found_struct, info, is_name_type_require_bitwork,
                                atomicals_spent_at_inputs) :
             info \in {mint_info},
             is_name_type_require_bitwork \in
                 {\E k \in {K_request_realm, K_request_container, K_request_ticker} :
                      truthy(dict_get(mint_info.args, k))}} : TRUE

\* lines 546-565, then the rest of the function: request_counter counts the
\* truthy ones of request_realm, request_subrealm, request_container and
\* request_ticker; every one but the subrealm requires bitwork
mint_info_names(op_found_struct, mint_info, atomicals_spent_at_inputs) ==
    CHOOSE result \in
        {IF request_count(info.args) > 1 THEN NoMint
         ELSE mint_info_parents(op_found_struct, info, is_name_type_require_bitwork,
                                atomicals_spent_at_inputs) :
             info \in {mint_info},
             is_name_type_require_bitwork \in
                 {\E k \in {K_request_realm, K_request_container, K_request_ticker} :
                      truthy(dict_get(mint_info.args, k))}} : TRUE

\* lines 534-544, then the rest of the function
mint_info_bitwork(op_found_struct, mint_info, atomicals_spent_at_inputs) ==
    CHOOSE result \in
        {IF pow_result.state = "raised" THEN pow_result
         ELSE IF pow_result.is_pow_requested /\ ~pow_result.has_result THEN NoMint
         ELSE mint_info_names(
                  op_found_struct,
                  IF /\ pow_result.is_pow_requested
                     /\ truthy(pow_result.pow_commit) \/ truthy(pow_result.pow_reveal)
                  THEN ("$bitwork" :> [bitworkc |-> pow_result.pow_commit,
                                       bitworkr |-> pow_result.pow_reveal]) @@ mint_info
                  ELSE mint_info,
                  atomicals_spent_at_inputs) :
             pow_result \in {has_requested_proof_of_work(op_found_struct)}} : TRUE

\* lines 454-753; coin only hashes the output script (see build_base_mint_info)
\* and tx_hash is only printed.  tx.outputs[0] raises IndexError for a
\* transaction without outputs.
get_mint_info_op_factory(tx, op_found_struct, atomicals_spent_at_inputs) ==
    IF op_found_struct.op = "none" THEN NoMint
    ELSE IF Len(tx.outputs) = 0 THEN Raised("IndexError")
    ELSE IF ~populate_args_meta_ctx_init_ok(op_found_struct.payload) THEN NoMint
    ELSE mint_info_bitwork(op_found_struct,
             populate_args_meta_ctx_init(
                 build_base_mint_info(tx, op_found_struct.commit_txid,
                                      op_found_struct.commit_index,
                                      op_found_struct.reveal_location_txid,
                                      op_found_struct.reveal_location_index),
                 op_found_struct.payload),
             atomicals_spent_at_inputs)

(***************************************************************************)
(* Subrealm rules                                                          *)
(***************************************************************************)
MINT_SUBREALM_RULES_BECOME_EFFECTIVE_IN_BLOCKS == 3
SUBREALM_MINT_MIN_PAYMENT_DUST_LIMIT == 0
MAX_SUBREALM_RULE_SIZE_BYTES == 1000000
SUBREALM_MINT_PATH == <<"/", "s", "u", "b", "r", "e", "a", "l", "m", "s">>

K_path == PyStr(<<"$", "p", "a", "t", "h">>)
K_rules == PyStr(<<"r", "u", "l", "e", "s">>)
K_p == PyStr(<<"p">>)
K_o == PyStr(<<"o">>)

\* int(text, 16) succeeds: surrounding whitespace is stripped, one sign and
\* the prefix 0x are allowed, then hex digits with single underscores
\* between them (one may follow the prefix)
py_int16_ok(text) ==
    \E t \in {str_strip(text)} :
        \E body \in {IF Len(t) > 0 /\ t[1] \in {"+", "-"} THEN Tail(t) ELSE t} :
            \E digits \in {IF Len(body) >= 2 /\ body[1] = "0" /\ body[2] \in {"x", "X"}
                           THEN IF Len(body) >= 3 /\ body[3] = "_"
                                THEN SubSeq(body, 4, Len(body))
                                ELSE SubSeq(body, 3, Len(body))
                           ELSE body} :
                /\ Len(digits) > 0
                /\ \A i \in 1..Len(digits) : IsHexChar(digits[i]) \/ digits[i] = "_"
                /\ digits[1] # "_" /\ digits[Len(digits)] # "_"
                /\ \A i \in 1..(Len(digits) - 1) : ~(digits[i] = "_" /\ digits[i + 1] = "_")

\* lines 185-193
is_hex_string(value) == \E v \in {value} : v.t = "str" /\ py_int16_ok(v.s)

\* the nesting depth of parentheses after each character of a pattern
RECURSIVE regex_depth(_, _)
regex_depth(pattern, n) ==
    IF n = 0 THEN 0
    ELSE regex_depth(pattern, n - 1)
             + (IF pattern[n] = "(" THEN 1 ELSE IF pattern[n] = ")" THEN -1 ELSE 0)

\* re.compile(pattern) succeeds, for a pattern written with letters, digits,
\* the dot, the star and parentheses: the parentheses are balanced and every
\* star follows something to repeat that is no star
re_compile_ok(pattern) ==
    \E p \in {pattern} :
        /\ \A n \in 1..Len(p) : regex_depth(p, n) >= 0
        /\ regex_depth(p, Len(p)) = 0
        /\ \A n \in 1..Len(p) : p[n] = "*" => (n > 1 /\ p[n - 1] \notin {"(", "*"})

\* the text an f-string writes for a pattern that is a str, an int or a bool
format_pattern(regex_pattern) ==
    CASE regex_pattern.t = "str" -> regex_pattern.s
      [] regex_pattern.t = "int" -> int_to_str(regex_pattern.i)
      [] regex_pattern.t = "bool" ->
           IF regex_pattern.b THEN <<"T", "r", "u", "e">> ELSE <<"F", "a", "l", "s", "e">>

\* lines 1217-1232: outputs is a dict of at least one hex script to an int
\* of at least the dust limit
subrealm_rule_outputs_ok(outputs) ==
    \E o \in {outputs} :
        /\ o.t = "dict"
        /\ Len(o.d) >= 1
        /\ \A i \in 1..Len(o.d) :
               /\ isinstance_int(o.d[i].v)
               /\ int_value(o.d[i].v) >= SUBREALM_MINT_MIN_PAYMENT_DUST_LIMIT
               /\ is_hex_string(o.d[i].k)

\* lines 1205-1248: the entry of rules is a dict with a pattern p that
\* compiles and valid outputs o
subrealm_price_point_ok(regex_price) ==
    \E rule \in {regex_price} :
        /\ rule.t = "dict"
        /\ dict_get(rule, K_p) # PyNone
        /\ dict_get(rule, K_o) # PyNone
        /\ subrealm_rule_outputs_ok(dict_get(rule, K_o))
        /\ re_compile_ok(format_pattern(dict_get(rule, K_p)))

\* lines 1236-1240
subrealm_price_point(regex_price) ==
    PyDict(<<[k |-> K_p, v |-> dict_get(regex_price, K_p)],
             [k |-> K_o, v |-> dict_get(regex_price, K_o)]>>)

\* sys.getsizeof of a list of n elements (CPython, 64 bit, no spare room)
list_getsizeof(n) == 56 + 8 * n

NoRule == [state |-> "returned", found |-> FALSE]

\* lines 1175-1256: the rule set of the record that is in force, None
\* when its data is no well-formed rule set
subrealm_rule_set(modpath_item, valid_from_height) ==
    CHOOSE result \in
        {IF ~truthy(data) \/ data.t # "dict" THEN NoRule
         ELSE CHOOSE checked \in
                  {IF mod_path.t # "str" THEN NoRule
                   ELSE IF mod_path.s # SUBREALM_MINT_PATH THEN NoRule
                   ELSE IF ~truthy(rules) THEN NoRule
                   ELSE IF rules.t # "list" THEN NoRule
                   ELSE IF Len(rules.l) <= 0 THEN NoRule
                   ELSE IF list_getsizeof(Len(rules.l)) > MAX_SUBREALM_RULE_SIZE_BYTES THEN NoRule
                   ELSE IF \E i \in 1..Len(rules.l) : ~subrealm_price_point_ok(rules.l[i])
                   THEN NoRule
                   ELSE [state |-> "returned", found |-> TRUE,
                         rule_set_txid |-> item.txid,
                         rule_set_height |-> item.height,
                         rule_valid_from_height |-> valid_from_height,
                         rules |-> [i \in 1..Len(rules.l) |->
                                        subrealm_price_point(rules.l[i])]] :
                       mod_path \in {dict_get(data, K_path)},
                       rules \in {dict_get(data, K_rules)}} : TRUE :
             item \in {modpath_item}, data \in {modpath_item.data}} : TRUE

\* the greatest element of a non-empty set of numbers
SetMax(S) == CHOOSE x \in S : \A y \in S : y <= x

\* lines 1120-1133, the loop from the i-th record on.  prev_height and
\* prev_tx_num start at 99999999999, above every height and tx_num here, so
\* the assertions compare the records from the second on with the one before.
RECURSIVE collapse_loop(_, _, _)
collapse_loop(subrealm_mint_modpath_history, i, collapsed) ==
    IF i > Len(subrealm_mint_modpath_history)
    THEN [state |-> "returned", value |-> collapsed]
    ELSE CHOOSE result \in
        {IF i > 1 /\ ~(modpath_item.height <= subrealm_mint_modpath_history[i - 1].height)
         THEN Raised("AssertionError")
         ELSE IF i > 1 /\ ~(modpath_item.tx_num < subrealm_mint_modpath_history[i - 1].tx_num)
         THEN Raised("AssertionError")
         ELSE collapse_loop(subrealm_mint_modpath_history, i + 1,
                            IF modpath_item.height \in DOMAIN collapsed THEN collapsed
                            ELSE (modpath_item.height :> modpath_item) @@ collapsed) :
             modpath_item \in {subrealm_mint_modpath_history[i]}} : TRUE

\* create_collapsed_height_to_mod_path_history_items_map keeping the last
\* record met at a height
RECURSIVE collapse_loop_keep_last(_, _, _)
collapse_loop_keep_last(subrealm_mint_modpath_history, i, collapsed) ==
    IF i > Len(subrealm_mint_modpath_history)
    THEN [state |-> "returned", value |-> collapsed]
    ELSE CHOOSE result \in
        {IF i > 1 /\ ~(modpath_item.height <= subrealm_mint_modpath_history[i - 1].height)
         THEN Raised("AssertionError")
         ELSE IF i > 1 /\ ~(modpath_item.tx_num < subrealm_mint_modpath_history[i - 1].tx_num)
         THEN Raised("AssertionError")
         ELSE collapse_loop_keep_last(subrealm_mint_modpath_history, i + 1,
                                      (modpath_item.height :> modpath_item) @@ collapsed) :
             modpath_item \in {subrealm_mint_modpath_history[i]}} : TRUE

create_collapsed_height_to_mod_path_history_items_map_keep_last(subrealm_mint_modpath_history) ==
    collapse_loop_keep_last(subrealm_mint_modpath_history, 1, <<>>)

\* lines 1120-1133
create_collapsed_height_to_mod_path_history_items_map(subrealm_mint_modpath_history) ==
    collapse_loop(subrealm_mint_modpath_history, 1, <<>>)

\* subrealm_rules_loop with a record in force one block late
RECURSIVE subrealm_rules_loop_late(_, _, _, _)
subrealm_rules_loop_late(height, collapsed, height_keys, prev_tx_num) ==
    IF height_keys = {} THEN NoRule
    ELSE CHOOSE result \in
        {IF modpath_item.height # height_key THEN Raised("AssertionError")
         ELSE IF Len(prev_tx_num) > 0 /\ ~(modpath_item.tx_num < prev_tx_num[1])
         THEN Raised("AssertionError")
         ELSE IF height <= modpath_item.height + MINT_SUBREALM_RULES_BECOME_EFFECTIVE_IN_BLOCKS
         THEN subrealm_rules_loop_late(height, collapsed, height_keys \ {height_key},
                                       <<modpath_item.tx_num>>)
         ELSE subrealm_rule_set(
                  modpath_item,
                  modpath_item.height + MINT_SUBREALM_RULES_BECOME_EFFECTIVE_IN_BLOCKS) :
             height_key \in {SetMax(height_keys)},
             modpath_item \in {collapsed[SetMax(height_keys)]}} : TRUE

\* lines 1155-1257: the loop over the collapsed records by decreasing height,
\* height_keys being the heights not yet visited.  prev_height stays
\* 99999999999, so its assertion holds; prev_tx_num is empty before the
\* first record.
RECURSIVE subrealm_rules_loop(_, _, _, _)
subrealm_rules_loop(height, collapsed, height_keys, prev_tx_num) ==
    IF height_keys = {} THEN NoRule
    ELSE CHOOSE result \in
        {IF modpath_item.height # height_key THEN Raised("AssertionError")
         ELSE IF Len(prev_tx_num) > 0 /\ ~(modpath_item.tx_num < prev_tx_num[1])
         THEN Raised("AssertionError")
         ELSE IF height < modpath_item.height + MINT_SUBREALM_RULES_BECOME_EFFECTIVE_IN_BLOCKS
         THEN subrealm_rules_loop(height, collapsed, height_keys \ {height_key},
                                  <<modpath_item.tx_num>>)
         ELSE subrealm_rule_set(
                  modpath_item,
                  modpath_item.height + MINT_SUBREALM_RULES_BECOME_EFFECTIVE_IN_BLOCKS) :
             height_key \in {SetMax(height_keys)},
             modpath_item \in {collapsed[SetMax(height_keys)]}} : TRUE

\* lines 1141-1257
calculate_subrealm_rules_list_as_of_height(height, subrealm_mint_modpath_history) ==
    CHOOSE result \in
        {IF collapsed.state = "raised" THEN collapsed
         ELSE subrealm_rules_loop(height, collapsed.value, DOMAIN collapsed.value, <<>>) :
             collapsed \in {create_collapsed_height_to_mod_path_history_items_map(
                               subrealm_mint_modpath_history)}} : TRUE

(***************************************************************************)
(* Name candidate status                                                   *)
(***************************************************************************)
MINT_REALM_CONTAINER_TICKER_COMMIT_REVEAL_DELAY_BLOCKS == 3
MINT_SUBREALM_COMMIT_PAYMENT_DELAY_BLOCKS == 15

\* a str the code only compares as a whole: a status, a payment type
Word(w) == [t |-> "word", w |-> w]

\* lines 263-265
get_tx_hash_index_from_location_id(location_id) ==
    <<SubSeq(location_id, 1, 32), unpack_le_uint32_from(SubSeq(location_id, 33, 36))>>

\* lines 757-770.  atomical_id_to_candidate_info_map is a function from
\* atomical ids to datasets; a dataset holds None under a key it lacks, which
\* is what dataset.get reads.
format_name_type_candidates_to_rpc(raw_entries, atomical_id_to_candidate_info_map) ==
    [n \in 1..Len(raw_entries) |->
        CHOOSE candidate \in
            {[tx_num |-> raw_entries[n].tx_num,
              atomical_id |-> location_id_bytes_to_compact(name_atomical_id),
              txid |-> hash_to_hex_str(get_tx_hash_index_from_location_id(name_atomical_id)[1]),
              commit_height |-> dataset.commit_height,
              reveal_location_height |-> dataset.reveal_location_height] :
                 name_atomical_id \in {raw_entries[n].value},
                 dataset \in {atomical_id_to_candidate_info_map[raw_entries[n].value]}} : TRUE]

\* subrealm_candidate with the payment due when the payment window opens
subrealm_candidate_due_at_window(base_candidate, dataset) ==
    (IF dataset.payment_type = Word("applicable_rule")
     THEN [make_payment_from_height |->
               dataset.commit_height + MINT_REALM_CONTAINER_TICKER_COMMIT_REVEAL_DELAY_BLOCKS,
           payment_due_no_later_than_height |->
               dataset.commit_height + MINT_REALM_CONTAINER_TICKER_COMMIT_REVEAL_DELAY_BLOCKS,
           applicable_rule |-> dataset.applicable_rule]
     ELSE <<>>)
        @@ [payment |-> dataset.payment,
            payment_type |-> dataset.payment_type,
            format_name_type_candidates_to_rpc_for_subrealm_path |-> TRUE]
        @@ base_candidate

\* lines 778-790: the fields added to a candidate from its dataset
subrealm_candidate(base_candidate, dataset) ==
    (IF dataset.payment_type = Word("applicable_rule")
     THEN [make_payment_from_height |->
               dataset.commit_height + MINT_REALM_CONTAINER_TICKER_COMMIT_REVEAL_DELAY_BLOCKS,
           payment_due_no_later_than_height |->
               dataset.commit_height + MINT_SUBREALM_COMMIT_PAYMENT_DELAY_BLOCKS,
           applicable_rule |-> dataset.applicable_rule]
     ELSE <<>>)
        @@ [payment |-> dataset.payment,
            payment_type |-> dataset.payment_type,
            format_name_type_candidates_to_rpc_for_subrealm_path |-> TRUE]
        @@ base_candidate

\* lines 773-791: compact_to_location_id_bytes reads back the id that
\* location_id_bytes_to_compact wrote, and raises for an index it refuses
format_name_type_candidates_to_rpc_for_subrealm(raw_entries, atomical_id_to_candidate_info_map) ==
    CHOOSE result \in
        {IF \E n \in 1..Len(location_ids) : location_ids[n].state = "raised"
         THEN location_ids[CHOOSE n \in 1..Len(location_ids) :
                               /\ location_ids[n].state = "raised"
                               /\ \A k \in 1..(n - 1) : location_ids[k].state # "raised"]
         ELSE [state |-> "returned",
               value |-> [n \in 1..Len(reformatted) |->
                             CHOOSE candidate \in
                                 {subrealm_candidate(base_candidate, dataset) :
                                      base_candidate \in {reformatted[n]},
                                      dataset \in {atomical_id_to_candidate_info_map[
                                                       location_ids[n].value]}} : TRUE]] :
             reformatted \in {format_name_type_candidates_to_rpc(
                                  raw_entries, atomical_id_to_candidate_info_map)},
             location_ids \in
                 {[n \in 1..Len(raw_entries) |->
                      compact_to_location_id_bytes(
                          location_id_bytes_to_compact(raw_entries[n].value))]}} : TRUE

\* is_within_acceptable_blocks_for_name_reveal with the last block excluded
is_within_acceptable_blocks_for_name_reveal_strict(commit_height, reveal_location_height) ==
    commit_height > reveal_location_height - MINT_REALM_CONTAINER_TICKER_COMMIT_REVEAL_DELAY_BLOCKS

\* lines 1111-1112
is_within_acceptable_blocks_for_name_reveal(commit_height, reveal_location_height) ==
    commit_height >= reveal_location_height - MINT_REALM_CONTAINER_TICKER_COMMIT_REVEAL_DELAY_BLOCKS

\* a returned status dict; the note is kept as the pieces it is built from
Status(fields) == [state |-> "returned", value |-> fields]

\* str(MINT_REALM_CONTAINER_TICKER_COMMIT_REVEAL_DELAY_BLOCKS)
MAX_BLOCKS_STR == int_to_str(MINT_REALM_CONTAINER_TICKER_COMMIT_REVEAL_DELAY_BLOCKS)

\* lines 1275-1277 and 1321-1323
candidate_id_compact_of(candidate_id) ==
    IF truthy(candidate_id) THEN PyStr(location_id_bytes_to_compact(candidate_id.y))
    ELSE PyNone

\* lines 1265-1308
get_name_request_candidate_status(current_height, atomical_info, status, candidate_id, name_type) ==
    CHOOSE result \in
        {IF ~is_within_acceptable_blocks_for_name_reveal(mint_info.commit_height,
                                                         mint_info.reveal_location_height)
         THEN Status([status |-> Word("expired_revealed_late"),
                      note |-> <<"The maximum number of blocks between commit and reveal is ",
                                 MAX_BLOCKS_STR, " blocks">>])
         ELSE IF status = Word("verified")
         THEN IF atomical_info.atomical_id = candidate_id
              THEN Status([status |-> Word("verified"),
                           verified_atomical_id |-> candidate_id_compact,
                           note |-> <<"Successfully verified and claimed ", name_type,
                                      " for current Atomical">>])
              ELSE Status([status |-> Word("claimed_by_other"),
                           claimed_by_atomical_id |-> candidate_id_compact,
                           note |-> <<"Failed to claim ", name_type,
                                      " for current Atomical because it was claimed first by another Atomical">>])
         ELSE IF name_type # "subrealm" /\ status = Word("pending")
         THEN IF atomical_info.atomical_id = candidate_id
              THEN Status([status |-> Word("pending_candidate"),
                           pending_candidate_atomical_id |-> candidate_id_compact,
                           note |-> <<"The current Atomical is the leading candidate for the ",
                                      name_type, ". Wait the ", MAX_BLOCKS_STR,
                                      " blocks after commit to achieve confirmation">>])
              ELSE Status([status |-> Word("pending_claimed_by_other"),
                           pending_claimed_by_atomical_id |-> candidate_id_compact,
                           note |-> <<"Failed to claim ", name_type,
                                      " for current Atomical because it was claimed first by another Atomical">>])
         ELSE Status([status |-> status,
                      pending_candidate_atomical_id |-> candidate_id_compact]) :
             mint_info \in {atomical_info.mint_info},
             candidate_id_compact \in {candidate_id_compact_of(candidate_id)}} : TRUE

\* lines 1325-1331: the position in $subrealm_candidates of the candidate
\* of the atomical itself, 0 when the loop ends without finding it
current_candidate_index(atomical_info) ==
    CHOOSE found \in
        {IF \E n \in 1..Len(candidates) : candidates[n].atomical_id = own_id
         THEN CHOOSE n \in 1..Len(candidates) :
                  /\ candidates[n].atomical_id = own_id
                  /\ \A k \in 1..(n - 1) : candidates[k].atomical_id # own_id
         ELSE 0 :
             candidates \in {atomical_info.subrealm_candidates},
             own_id \in {location_id_bytes_to_compact(atomical_info.atomical_id.y)}} : TRUE

\* candidate['key'] of a candidate dict: KeyError without the key
has_key(candidate, key) == key \in DOMAIN candidate

\* candidate.get('key')
candidate_get(candidate, key) == IF key \in DOMAIN candidate THEN candidate[key] ELSE PyNone

\* the condition of line 1361 with the block the window opens at included
before_payment_window_inclusive(current_height, candidate) ==
    current_height <= candidate.commit_height
                          + MINT_REALM_CONTAINER_TICKER_COMMIT_REVEAL_DELAY_BLOCKS

\* line 1361: the minimum delay after the commit has not elapsed
before_payment_window(current_height, candidate) ==
    current_height < candidate.commit_height
                         + MINT_REALM_CONTAINER_TICKER_COMMIT_REVEAL_DELAY_BLOCKS

\* lines 1333-1398, with the candidate the loop stopped at.  The loop
\* variable candidate is that same candidate: the loop leaves by break.
subrealm_candidate_status(current_height, atomical_info, status, candidate_id, candidate) ==
    CHOOSE result \in
        {IF applicable /\ candidate_get(candidate, "applicable_rule") = PyNone
         THEN Status([status |-> Word("invalid_request_subrealm_no_matched_applicable_rule")])
         ELSE IF status = Word("verified")
         THEN IF atomical_info.atomical_id = candidate_id
              THEN Status([status |-> Word("verified"),
                           verified_atomical_id |-> candidate_id_compact,
                           note |-> <<"Successfully verified and claimed subrealm for current Atomical">>])
              ELSE Status([status |-> Word("claimed_by_other"),
                           claimed_by_atomical_id |-> candidate_id_compact,
                           note |-> <<"Failed to claim subrealm for current Atomical because it was claimed first by another Atomical">>])
         ELSE IF applicable /\ candidate_get(candidate, "payment") = PyNone
                 /\ ~has_key(candidate, "payment_due_no_later_than_height")
         THEN Raised("KeyError")
         ELSE IF applicable /\ candidate_get(candidate, "payment") = PyNone
                 /\ current_height > candidate.payment_due_no_later_than_height
         THEN Status([status |-> Word("expired_payment_not_received"),
                      note |-> <<"A valid payment was not received before the 'payment_due_no_later_than_height' limit">>])
         ELSE IF before_payment_window(current_height, candidate)
         THEN IF applicable /\ truthy(candidate_get(candidate, "payment"))
              THEN Status([status |-> Word("pending_awaiting_confirmations_payment_received_prematurely"),
                           pending_candidate_atomical_id |-> candidate_id_compact,
                           note |-> <<"A payment was received, but the minimum delay of ",
                                      MAX_BLOCKS_STR,
                                      " blocks has not yet elapsed to declare a winner">>])
              ELSE IF applicable
              THEN Status([status |-> Word("pending_awaiting_confirmations_for_payment_window"),
                           pending_candidate_atomical_id |-> candidate_id_compact,
                           note |-> <<"Await until the 'make_payment_from_height' block height for the payment window to be open with status 'pending_awaiting_payment'">>])
              ELSE IF candidate.payment_type = Word("parent_initiated")
              THEN Status([status |-> Word("pending_awaiting_confirmations"),
                           pending_candidate_atomical_id |-> candidate_id_compact,
                           note |-> <<"Await ", MAX_BLOCKS_STR, " blocks has elapsed to verify">>])
              ELSE Status([status |-> status,
                           pending_candidate_atomical_id |-> candidate_id_compact])
         ELSE IF status = Word("pending_awaiting_payment")
         THEN IF ~has_key(candidate, "payment_due_no_later_than_height")
              THEN Raised("KeyError")
              ELSE IF atomical_info.atomical_id = candidate_id
              THEN Status([status |-> status,
                           pending_candidate_atomical_id |-> candidate_id_compact,
                           note |-> <<"The payment must be received by block height ",
                                      int_to_str(candidate.payment_due_no_later_than_height),
                                      " to claim successfully">>])
              ELSE Status([status |-> status,
                           pending_candidate_atomical_id |-> candidate_id_compact,
                           note |-> <<"Another Atomical is the leading candidate and they have until block height ",
                                      int_to_str(candidate.payment_due_no_later_than_height),
                                      " to claim successfully.">>])
         ELSE Status([status |-> status,
                      pending_candidate_atomical_id |-> candidate_id_compact]) :
             applicable \in {candidate.payment_type = Word("applicable_rule")},
             candidate_id_compact \in {candidate_id_compact_of(candidate_id)}} : TRUE

\* lines 1312-1398
get_subrealm_request_candidate_status(current_height, atomical_info, status, candidate_id) ==
    CHOOSE result \in
        {IF base_status.value.status \in {Word("expired_revealed_late"), Word("verified")}
         THEN base_status
         ELSE IF found = 0 THEN Raised("TypeError")
         ELSE subrealm_candidate_status(current_height, atomical_info, status, candidate_id,
                                        atomical_info.subrealm_candidates[found]) :
             base_status \in {get_name_request_candidate_status(
                                  current_height, atomical_info, status, candidate_id, "subrealm")},
             found \in {current_candidate_index(atomical_info)}} : TRUE

(***************************************************************************)
(* Calls of the FT output distributor                                      *)
(***************************************************************************)
MaxOutputs == 3        \* outputs of the transaction
MaxOutputValue == 3    \* value of one output
MaxTokenValue == 5     \* value of the FT mint record
MaxSkip == 3           \* amount a skip operation asks for

\* the atomical whose outputs are coloured, and another one
FtAtomicalId == [i \in 1..32 |-> i] \o pack_le_uint32(0)
FtOtherAtomicalId == [i \in 1..32 |-> i] \o pack_le_uint32(1)

\* the values a payload can hold under an atomical id
FtPayloadValues ==
    {PyInt(n) : n \in -1..MaxSkip}
        \cup {PyBool(TRUE), PyBool(FALSE), PyFloat(16384), PyStr(<<"2">>), PyStr(<<>>)}

FtPayloads ==
    {PyDict(<<>>)}
        \cup {PyDict(<<[k |-> PyStr(location_id_bytes_to_compact(FtAtomicalId)), v |-> x]>>) :
                  x \in FtPayloadValues}
        \cup {PyDict(<<[k |-> PyStr(location_id_bytes_to_compact(FtOtherAtomicalId)),
                          v |-> PyInt(2)]>>)}

FtOperations ==
    {NoOperation}
        \cup [op : {"y", "x"}, input_index : {0, 1}, payload : FtPayloads]

FtOutputs == UNION {[1..n -> 0..MaxOutputValue] : n \in 0..MaxOutputs}

InitFT ==
    /\ call \in [fn : {"get_expected_output_indexes_of_atomical_ft"},
                  mint_info : [type : {"FT"}, value : 0..MaxTokenValue],
                  outputs : FtOutputs,
                  atomical_id : {FtAtomicalId},
                  ops : FtOperations]
    /\ ret = Pending

CallFT ==
    /\ ret = Pending
    /\ call.fn = "get_expected_output_indexes_of_atomical_ft"
    /\ ret' = get_expected_output_indexes_of_atomical_ft(
                  call.mint_info, call.outputs, call.atomical_id, call.ops)
    /\ UNCHANGED call

NextFT == CallFT

SpecFT == InitFT /\ [][NextFT]_vars

(***************************************************************************)
(* Calls of the bitwork functions                                          *)
(***************************************************************************)
MaxShortPrefix == 2    \* short prefixes have 1..MaxShortPrefix characters
MaxExtDigits == 17     \* ext strings are drawn from "-1" .. str(MaxExtDigits)
MaxHashSeed == 1       \* transaction hashes are numbered 0..MaxHashSeed

\* str(n) for any integer n
signed_int_to_str(n) == IF n < 0 THEN <<"-">> \o int_to_str(0 - n) ELSE int_to_str(n)

\* prefixes: n characters, all "a" except the last, which is c
BwPrefix(n, c) == [i \in 1..n |-> IF i = n THEN c ELSE "a"]

BwPrefixTexts ==
    {<<>>}
        \cup {BwPrefix(n, c) :
                  n \in (1..MaxShortPrefix)
                           \cup ((POW_PREFIX_MAX_LEN - 1)..(POW_PREFIX_MAX_LEN + 1)),
                  c \in {"a", "7", "A", "-", "\n"}}

\* what follows the prefix: nothing, or a dot and the text of the ext
BwExtTexts ==
    {<<".">> \o signed_int_to_str(n) : n \in -1..MaxExtDigits}
        \cup {<<>>, <<".">>, <<".", "+", "3">>, <<".", " ", "7">>, <<".", "1", "_", "0">>,
               <<".", "0", "7">>, <<".", "x">>, <<".", "1", ".", "5">>}

BwBitworkValues ==
    {PyStr(pre \o ext) : pre \in BwPrefixTexts, ext \in BwExtTexts}
        \cup {PyNone, PyInt(0), PyInt(7), PyBytes(<<97>>)}

BwTxHashes == {[i \in 1..32 |-> (37 * i + 101 * seed) % 256] : seed \in 0..MaxHashSeed}

ToUpper(c) ==
    CASE c = "a" -> "A" [] c = "b" -> "B" [] c = "c" -> "C"
      [] c = "d" -> "D" [] c = "e" -> "E" [] c = "f" -> "F" [] OTHER -> c

\* prefixes tried against a txid: its own prefixes, the same with the last
\* character changed, and the same in upper case
BwPowPrefixes(txid) ==
    LET own(n) == SubSeq(txid, 1, n) IN
    {own(n) : n \in 1..Len(txid)}
        \cup {SubSeq(txid, 1, n - 1) \o <<"z">> : n \in 1..Len(txid)}
        \cup {[i \in 1..n |-> ToUpper(txid[i])] : n \in 1..Len(txid)}

BwExts ==
    {PyNone, PyFloat(16384)} \cup {PyInt(e) : e \in -1..(POW_PREFIX_EXT_MAX + 1)}

BwMatchCalls ==
    UNION {[fn : {"is_proof_of_work_prefix_match"},
            tx_hash : {h},
            powprefix : BwPowPrefixes(hash_to_hex_str(h)),
            powprefix_ext : BwExts] : h \in BwTxHashes}

InitBitwork ==
    /\ call \in [fn : {"is_valid_bitwork_string"}, bitwork : BwBitworkValues]
                    \cup BwMatchCalls
    /\ ret = Pending

CallIsValidBitworkString ==
    /\ ret = Pending
    /\ call.fn = "is_valid_bitwork_string"
    /\ ret' = is_valid_bitwork_string(call.bitwork)
    /\ UNCHANGED call

CallIsProofOfWorkPrefixMatch ==
    /\ ret = Pending
    /\ call.fn = "is_proof_of_work_prefix_match"
    /\ ret' = is_proof_of_work_prefix_match(call.tx_hash, call.powprefix, call.powprefix_ext)
    /\ UNCHANGED call

NextBitwork == CallIsValidBitworkString \/ CallIsProofOfWorkPrefixMatch

SpecBitwork == InitBitwork /\ [][NextBitwork]_vars

(***************************************************************************)
(* Calls of the atomical-id codec                                          *)
(***************************************************************************)
MaxSmallIndex == 11    \* output indexes 0..MaxSmallIndex are drawn, and the limits

IdHashes == {[i \in 1..32 |-> (37 * i + 101 * seed) % 256] : seed \in 0..MaxHashSeed}

\* output indexes: small ones, those around a byte boundary of the 4-byte
\* encoding and those around the greatest index allowed
IdIndexes ==
    (0..MaxSmallIndex)
        \cup {255, 256, 65535, 65536, COMPACT_ID_MAX_INDEX - 1, COMPACT_ID_MAX_INDEX,
               COMPACT_ID_MAX_INDEX + 1}

\* the text before the "i": the 64 hex digits of a hash, and damaged forms
IdHexTexts(h) ==
    LET hex == hash_to_hex_str(h) IN
    {hex,
     [i \in 1..64 |-> ToUpper(hex[i])],
     [i \in 1..64 |-> IF i = 7 THEN "g" ELSE hex[i]],
     [i \in 1..64 |-> IF i \in {1, 2} THEN " " ELSE hex[i]],
     [i \in 1..64 |-> IF i = 64 THEN " " ELSE hex[i]],
     SubSeq(hex, 1, 62),
     SubSeq(hex, 1, 63),
     hex \o <<"0">>,
     hex \o <<"0", "0">>}

\* the text from the "i" on
IdSuffixTexts ==
    {<<"i">> \o signed_int_to_str(n) : n \in IdIndexes \cup {-1}}
        \cup {<<>>, <<"i">>, <<"i", "0", "0", "7">>, <<"i", "-", "0">>, <<"i", "+", "5">>,
               <<"i", " ", "5">>, <<"i", "1", "_", "0">>, <<"i", "x">>, <<"i", "i", "0">>,
               <<"i", "0", "i">>}

IdCompactTexts == {hex \o suffix : hex \in UNION {IdHexTexts(h) : h \in IdHashes},
                                   suffix \in IdSuffixTexts}

\* 36-byte ids
IdLocationIds == {h \o pack_le_uint32(n) : h \in IdHashes, n \in IdIndexes \cup {16777216}}

InitCodec ==
    /\ call \in [fn : {"compact_to_location_id_bytes"}, value : IdCompactTexts]
                    \cup [fn : {"location_id_bytes_to_compact"}, location_id : IdLocationIds]
    /\ ret = Pending

CallCompactToLocationIdBytes ==
    /\ ret = Pending
    /\ call.fn = "compact_to_location_id_bytes"
    /\ ret' = compact_to_location_id_bytes(call.value)
    /\ UNCHANGED call

CallLocationIdBytesToCompact ==
    /\ ret = Pending
    /\ call.fn = "location_id_bytes_to_compact"
    /\ ret' = [state |-> "returned", value |-> location_id_bytes_to_compact(call.location_id)]
    /\ UNCHANGED call

NextCodec == CallCompactToLocationIdBytes \/ CallLocationIdBytesToCompact

SpecCodec == InitCodec /\ [][NextCodec]_vars

(***************************************************************************)
(* Calls of the witness scan of one input                                  *)
(***************************************************************************)
MaxWitnessElements == 3    \* witness elements of one input

\* the 32-byte key push every reveal script starts with
ScriptKey == <<OP_PUSH_32>> \o [i \in 1..32 |-> 171]

\* OP_CHECKSIG OP_0 OP_IF "atom": what stands between the key and the operation
EnvelopeStart == <<172, 0, OP_IF>> \o ATOMICALS_ENVELOPE_MARKER_BYTES

\* one push of data, the shortest form
push_data(data) ==
    IF Len(data) < OP_PUSHDATA1 THEN <<Len(data)>> \o data
    ELSE <<OP_PUSHDATA1, Len(data)>> \o data

\* a reveal script: key, envelope, operation code, the pushes of the payload
EnvelopeScript(op_code, pushes) ==
    ScriptKey \o EnvelopeStart \o op_code \o pushes \o <<OP_ENDIF>>

\* a witness element carrying operation op with the payload bytes
OpElement(op, op_code, pushes, payload) ==
    [kind |-> "op", op |-> op, payload |-> payload, script |-> EnvelopeScript(op_code, pushes)]

\* a witness element the scan finds no operation in (kind says why), or
\* whose payload push is malformed (kind "overrun")
OtherElement(kind, script) == [kind |-> kind, op |-> "none", payload |-> <<>>, script |-> script]

WitnessOpElements ==
    {OpElement("nft", <<3, 110, 102, 116>>, <<2, 161, 160>>, <<161, 160>>),
     OpElement("ft", <<2, 102, 116>>, <<1, 160, 0, 2, 7, 8>>, <<160, 7, 8>>),
     OpElement("x", <<1, 120>>, <<>>, <<>>),
     OpElement("y", <<1, 121>>, <<OP_PUSHDATA1, 1, 9>>, <<9>>),
     OpElement("dmt", <<3, 100, 109, 116>>, <<OP_PUSHDATA2, 2, 0, 5, 6, 172>>, <<5, 6>>),
     OpElement("dat", <<3, 100, 97, 116>>, <<OP_PUSHDATA4, 1, 0, 0, 0, 4>>, <<4>>),
     \* the OP_IF of the envelope stands right behind the key
     [kind |-> "op", op |-> "evt", payload |-> <<7>>,
      script |-> ScriptKey \o <<OP_IF>> \o ATOMICALS_ENVELOPE_MARKER_BYTES
                     \o <<3, 101, 118, 116, 1, 7, OP_ENDIF>>],
     \* an OP_IF without the marker stands before the envelope
     [kind |-> "op", op |-> "sl", payload |-> <<3>>,
      script |-> ScriptKey \o <<172, 0, OP_IF, 81, OP_ENDIF>> \o EnvelopeStart
                     \o <<2, 115, 108, 1, 3, OP_ENDIF>>]}

WitnessOverrunElements ==
    {OtherElement("overrun", EnvelopeScript(<<3, 110, 102, 116>>, <<5, 161, 160>>)),
     OtherElement("overrun", ScriptKey \o EnvelopeStart \o <<1, 121, OP_PUSHDATA1>>),
     OtherElement("overrun", ScriptKey \o EnvelopeStart \o <<2, 102, 116, OP_PUSHDATA2, 1>>)}

WitnessNoOpElements ==
    {\* a signature-like element: too short
     OtherElement("short", <<48, 1, 2, 3>>),
     \* an envelope, but the element is shorter than a key and an envelope
     OtherElement("short", <<OP_IF>> \o ATOMICALS_ENVELOPE_MARKER_BYTES \o <<1, 120, OP_ENDIF>>),
     \* an envelope in an element that does not start with the key push
     OtherElement("nokey", [i \in 1..33 |-> 81] \o EnvelopeStart \o <<1, 120, OP_ENDIF>>),
     \* key and script without an envelope
     OtherElement("noenv", ScriptKey \o <<172, 0, 81, 81, 81, 81, 81, 81>>),
     \* key and OP_IF without the marker
     OtherElement("noenv", ScriptKey \o <<172, 0, OP_IF, 81, 82, 83, 84, 85, 86, OP_ENDIF>>),
     \* envelope with an operation code that is none of the protocol's
     OtherElement("badop", EnvelopeScript(<<3, 122, 122, 122>>, <<1, 160>>)),
     OtherElement("badop", EnvelopeScript(<<1, 122>>, <<>>) \o EnvelopeStart \o <<1, 120, OP_ENDIF>>)}

WitnessElements == WitnessOpElements \cup WitnessOverrunElements \cup WitnessNoOpElements

Scripts(elements) == [i \in 1..Len(elements) |-> elements[i].script]

InitWitness ==
    /\ \E elements \in UNION {[1..n -> WitnessElements] : n \in 0..MaxWitnessElements} :
           call = [fn |-> "parse_protocols_operations_from_witness_for_input",
                   elements |-> elements,
                   txinwitness |-> Scripts(elements)]
    /\ ret = Pending

CallParseWitnessForInput ==
    /\ ret = Pending
    /\ call.fn = "parse_protocols_operations_from_witness_for_input"
    /\ ret' = parse_protocols_operations_from_witness_for_input(call.txinwitness)
    /\ UNCHANGED call

NextWitness == CallParseWitnessForInput

SpecWitness == InitWitness /\ [][NextWitness]_vars

(***************************************************************************)
(* Calls of the transaction parser                                         *)
(***************************************************************************)
MaxInputs == 2    \* inputs of the transaction

BytesValue == PyBytes(<<0>>)
KeyA == PyStr(<<"a">>)
KeyB == PyStr(<<"b">>)
KeyC == PyStr(<<"c">>)
Entry(k, v) == [k |-> k, v |-> v]

\* values of a field without a byte string and without None
TxCleanFieldValues ==
    {PyDict(<<>>),
     PyDict(<<Entry(KeyA, PyInt(1))>>),
     PyDict(<<Entry(KeyA, PyStr(<<"x">>)), Entry(KeyB, PyBool(TRUE))>>),
     PyDict(<<Entry(KeyA, PyDict(<<Entry(KeyB, PyInt(1))>>)), Entry(KeyC, PyFloat(15360))>>),
     PyDict(<<Entry(KeyA, PyList(<<PyInt(1), PyStr(<<"x">>)>>))>>)}

\* values of a field with a byte string somewhere
TxBytesFieldValues ==
    {\* directly, first and last among the entries
     PyDict(<<Entry(KeyA, BytesValue)>>),
     PyDict(<<Entry(KeyA, PyInt(1)), Entry(KeyB, BytesValue)>>),
     PyDict(<<Entry(KeyA, BytesValue), Entry(KeyB, PyDict(<<>>))>>),
     \* in a nested map, one and two levels down
     PyDict(<<Entry(KeyA, PyDict(<<Entry(KeyB, BytesValue)>>))>>),
     PyDict(<<Entry(KeyA, PyDict(<<Entry(KeyB, PyDict(<<Entry(KeyC, BytesValue)>>))>>))>>),
     \* after an entry that is a map
     PyDict(<<Entry(KeyA, PyDict(<<>>)), Entry(KeyB, BytesValue)>>),
     PyDict(<<Entry(KeyA, PyDict(<<Entry(KeyB, PyInt(1))>>)), Entry(KeyC, BytesValue)>>),
     \* in a list
     PyDict(<<Entry(KeyA, PyList(<<BytesValue>>))>>),
     PyDict(<<Entry(KeyA, PyList(<<PyInt(1), PyList(<<BytesValue>>)>>))>>)}

\* values of a field that are no map, or hold None
TxOtherFieldValues ==
    {PyInt(1), BytesValue, PyList(<<PyInt(1)>>), PyNone, PyDict(<<Entry(KeyA, PyNone)>>)}

TxFieldValues == TxCleanFieldValues \cup TxBytesFieldValues \cup TxOtherFieldValues

TxFieldNames == {<<"m", "e", "t", "a">>, <<"a", "r", "g", "s">>, <<"c", "t", "x">>, <<"i", "n", "i", "t">>}

\* decoded payloads: one of the four fields beside an ordinary entry, two
\* fields, and payloads without any of the four
TxPayloadValues ==
    {PyDict(<<Entry(PyStr(<<"n">>), PyInt(7)), Entry(PyStr(f), v)>>) : f \in TxFieldNames, v \in TxFieldValues}
    \cup {PyDict(<<Entry(PyStr(<<"a", "r", "g", "s">>), v), Entry(PyStr(<<"i", "n", "i", "t">>), w)>>) :
              v \in {PyDict(<<>>), PyDict(<<Entry(KeyA, BytesValue)>>)},
              w \in {PyDict(<<Entry(KeyA, BytesValue)>>)}}
    \cup {PyDict(<<>>), PyDict(<<Entry(KeyA, BytesValue)>>), PyDict(<<Entry(PyInt(1), PyList(<<>>))>>)}

\* a witness element carrying operation op with the CBOR encoding of value
PayloadElement(op, op_code, value) ==
    OpElement(op, op_code, push_data(dumps(value)), dumps(value))

TxPayloadElements == {PayloadElement("dmt", <<3, 100, 109, 116>>, v) : v \in TxPayloadValues}

\* payloads that are no CBOR map: an integer, a list, a truncated map, an
\* item with bytes left over behind it
TxBadPayloadElements ==
    {OpElement("nft", <<3, 110, 102, 116>>, push_data(y), y) :
         y \in {dumps(PyInt(1)), dumps(PyList(<<PyInt(1)>>)), <<161, 97>>, <<161>>, <<255>>}}

TxSignature == OtherElement("short", <<48, 1, 2, 3>>)
TxControlBlock == OtherElement("short", <<192>> \o [i \in 1..32 |-> 171])
TxCleanElement == PayloadElement("nft", <<3, 110, 102, 116>>, PyDict(<<Entry(PyStr(<<"a", "r", "g", "s">>), PyDict(<<Entry(KeyA, PyInt(2))>>))>>))
TxEmptyPayloadElement == OpElement("x", <<1, 120>>, <<>>, <<>>)
TxOverrunElement == OtherElement("overrun", EnvelopeScript(<<3, 110, 102, 116>>, <<5, 161, 160>>))
TxRejectedElement == PayloadElement("ft", <<2, 102, 116>>, PyDict(<<Entry(PyStr(<<"c", "t", "x">>), PyDict(<<Entry(KeyA, BytesValue)>>))>>))

\* the witnesses of one input every kind of which occurs among the inputs
\* before and behind the one that is varied
TxSmallInputs ==
    {<<TxSignature>>,
     <<TxSignature, TxCleanElement, TxControlBlock>>,
     <<TxSignature, TxRejectedElement, TxControlBlock>>,
     <<TxSignature, TxEmptyPayloadElement, TxControlBlock>>,
     <<TxSignature, TxOverrunElement, TxControlBlock>>,
     <<TxOverrunElement, TxCleanElement>>}

TxVariedInputs ==
    {<<TxSignature, e, TxControlBlock>> : e \in TxPayloadElements \cup TxBadPayloadElements}
    \cup {<<e, TxCleanElement>> : e \in TxBadPayloadElements}
    \cup {<<>>, <<TxCleanElement, TxOverrunElement>>}

SeqsUpTo(S, n) == UNION {[1..k -> S] : k \in 0..n}

TxWitnesses ==
    {pre \o <<v>> \o post : v \in TxVariedInputs,
                            pre \in SeqsUpTo(TxSmallInputs, MaxInputs - 1),
                            post \in SeqsUpTo(TxSmallInputs, MaxInputs - 1)}

\* the previous output the i-th input spends, and the hash of the transaction
TxPrevHash(i) == [b \in 1..32 |-> (16 * i + b) % 256]
TxInputs(n) == [i \in 1..n |-> [prev_hash |-> TxPrevHash(i), prev_idx |-> i + 1]]
TxHash == [b \in 1..32 |-> 255 - b]

\* the transaction with these witness elements per input
Tx(witnesses, segwit) ==
    [has_witness |-> segwit,
     inputs |-> TxInputs(Len(witnesses)),
     witness |-> [i \in 1..Len(witnesses) |-> Scripts(witnesses[i])]]

InitTx ==
    /\ \E witnesses \in {w \in TxWitnesses : Len(w) <= MaxInputs}, segwit \in BOOLEAN :
           /\ segwit \/ witnesses = <<<<>>>>
           /\ call = [fn |-> "parse_protocols_operations_from_witness_array",
                      witnesses |-> witnesses,
                      tx |-> Tx(witnesses, segwit),
                      tx_hash |-> TxHash]
    /\ ret = Pending

CallParseWitnessArray ==
    /\ ret = Pending
    /\ call.fn = "parse_protocols_operations_from_witness_array"
    /\ ret' = parse_protocols_operations_from_witness_array(call.tx, call.tx_hash)
    /\ UNCHANGED call

NextTx == CallParseWitnessArray

SpecTx == InitTx /\ [][NextTx]_vars

(***************************************************************************)
(* Calls of the name validators                                            *)
(***************************************************************************)
MaxNameLen == 3    \* short names have 1..MaxNameLen characters

NameChars == {"a", "x", "1", "-", "A"}

NameTextsOfLen(n) == [1..n -> NameChars]

\* names: every short one, the names of the examples, names of the greatest
\* length and one more, a name with a newline behind it
NameTexts ==
    UNION {NameTextsOfLen(n) : n \in 0..MaxNameLen}
        \cup {<<"a", "1", "-", "x">>, <<"1", "a", "-", "x">>, <<"a", "b", "\n">>}
        \cup {[i \in 1..n |-> c] : n \in {NAME_MAX_LEN, NAME_MAX_LEN + 1}, c \in {"a", "1"}}

NameValues == {PyStr(s) : s \in NameTexts} \cup {PyNone, PyInt(1), PyBytes(<<97>>)}

NameValidators ==
    {"is_valid_realm_string_name", "is_valid_subrealm_string_name",
     "is_valid_container_string_name", "is_valid_ticker_string"}

InitNames ==
    /\ call \in [fn : NameValidators, name : NameValues]
    /\ ret = Pending

CallIsValidRealmStringName ==
    /\ ret = Pending
    /\ call.fn = "is_valid_realm_string_name"
    /\ ret' = [state |-> "returned", value |-> PyBool(is_valid_realm_string_name(call.name))]
    /\ UNCHANGED call

CallIsValidSubrealmStringName ==
    /\ ret = Pending
    /\ call.fn = "is_valid_subrealm_string_name"
    /\ ret' = [state |-> "returned", value |-> PyBool(is_valid_subrealm_string_name(call.name))]
    /\ UNCHANGED call

CallIsValidContainerStringName ==
    /\ ret = Pending
    /\ call.fn = "is_valid_container_string_name"
    /\ ret' = [state |-> "returned", value |-> PyBool(is_valid_container_string_name(call.name))]
    /\ UNCHANGED call

\* re.match raises TypeError for a truthy value that is no str
CallIsValidTickerString ==
    /\ ret = Pending
    /\ call.fn = "is_valid_ticker_string"
    /\ ret' = IF truthy(call.name) /\ call.name.t # "str" THEN Raised("TypeError")
              ELSE [state |-> "returned", value |-> is_valid_ticker_string(call.name)]
    /\ UNCHANGED call

NextNames ==
    \/ CallIsValidRealmStringName
    \/ CallIsValidSubrealmStringName
    \/ CallIsValidContainerStringName
    \/ CallIsValidTickerString

SpecNames == InitNames /\ [][NextNames]_vars

(***************************************************************************)
(* Calls of the mint information builder                                   *)
(***************************************************************************)
MaxBitworkPrefix == 5    \* requested bitwork prefixes have 1..MaxBitworkPrefix characters
MaxParents == 2          \* declared parents of a mint
MaxSpentInputs == 2      \* inputs with spent-atomical records

\* a key that the args do not hold
Absent == [t |-> "absent"]

MintArgs(fields) == PyDict(SelectSeq(fields, LAMBDA e : e.v.t # "absent"))

\* the args of a mint, one field per key the builder reads
ProfileArgs(p) ==
    MintArgs(<<Entry(K_request_realm, p.realm), Entry(K_request_subrealm, p.subrealm),
               Entry(K_request_container, p.container), Entry(K_request_ticker, p.ticker),
               Entry(K_bitworkc, p.bitworkc), Entry(K_bitworkr, p.bitworkr),
               Entry(K_parents, p.parents), Entry(K_claim_type, p.claim_type),
               Entry(K_parent_realm, p.parent_realm), Entry(K_mint_height, p.mint_height),
               Entry(K_mint_amount, p.mint_amount), Entry(K_max_mints, p.max_mints),
               Entry(K_mint_bitworkc, p.mint_bitworkc), Entry(K_mint_bitworkr, p.mint_bitworkr)>>)

\* the transaction of the mint: two inputs, one output
MintTx == [outputs |-> <<[value |-> 1000, pk_script |-> <<81, 32>>]>>] @@ Tx(<<<<>>, <<>>>>, TRUE)

\* the operation as parse_protocols_operations_from_witness_array returns it
\* for the input at input_index
MintOp(op, input_index, payload) ==
    operation_struct(MintTx, TxHash, op, payload, dumps(payload), input_index)

CommitHex == hash_to_hex_str(TxPrevHash(1))
RevealHex == hash_to_hex_str(TxHash)

\* bitwork strings about the txid written hex: its prefixes alone and with
\* an ext around the digit that follows the prefix, and strings it does not
\* satisfy or that are no bitwork strings
BitworkTextsFor(hex) ==
    LET own(n) == SubSeq(hex, 1, n)
        next(n) == HexDigitValue(hex[n + 1])
    IN  {own(n) : n \in 1..MaxBitworkPrefix}
        \cup UNION {{own(n) \o <<".">> \o int_to_str(e) :
                          e \in {0, next(n), next(n) + 1, POW_PREFIX_EXT_MAX + 1}} :
                      n \in {MIN_NAME_BITWORK_PREFIX_LEN - 1, MIN_NAME_BITWORK_PREFIX_LEN}}
        \cup {own(MIN_NAME_BITWORK_PREFIX_LEN - 1) \o <<"z">>,
              own(MIN_NAME_BITWORK_PREFIX_LEN) \o <<"\n">>,
              own(MIN_NAME_BITWORK_PREFIX_LEN) \o <<".">>,
              own(MIN_NAME_BITWORK_PREFIX_LEN) \o <<".", "-", "1">>,
              <<"Z", "Z", "Z", "Z", ".", "1">>,
              hex \o <<".", "1">>}

BitworkValuesFor(hex) ==
    {PyStr(s) : s \in BitworkTextsFor(hex)} \cup {Absent, PyStr(<<>>), PyInt(5)}

GoodBitworkc == PyStr(SubSeq(CommitHex, 1, MIN_NAME_BITWORK_PREFIX_LEN))

\* compact ids of two atomicals, and texts that are no compact ids
ParentIdA == location_id_bytes_to_compact(TxPrevHash(3) \o pack_le_uint32(0))
ParentIdB == location_id_bytes_to_compact(TxPrevHash(4) \o pack_le_uint32(1))
NoHexId == [i \in 1..64 |-> "z"] \o <<"i", "0">>
NoIndexId == SubSeq(ParentIdA, 1, 65) \o <<"x">>

DefaultProfile ==
    [realm |-> Absent, subrealm |-> Absent, container |-> Absent, ticker |-> Absent,
     bitworkc |-> Absent, bitworkr |-> Absent, parents |-> Absent,
     claim_type |-> PyStr(<<"d", "i", "r", "e", "c", "t">>), parent_realm |-> PyStr(ParentIdA),
     mint_height |-> PyInt(0), mint_amount |-> PyInt(DFT_MINT_AMOUNT_MIN),
     max_mints |-> PyInt(1), mint_bitworkc |-> Absent, mint_bitworkr |-> Absent]

GoodRealm == PyStr(<<"a", "b">>)
GoodSubrealm == PyStr(<<"1", "a">>)
GoodContainer == PyStr(<<"c", "1">>)
GoodTicker == PyStr(<<"t", "k">>)

\* a requested name: absent, a valid one, a truthy value that is no str, the
\* empty str
NameChoices(good) == {Absent, good, PyInt(5), PyStr(<<>>)}

\* every combination of the four requested names, with and without bitworkc
MintNameProfiles ==
    {[DefaultProfile EXCEPT !.realm = r, !.subrealm = s, !.container = c, !.ticker = t,
                            !.bitworkc = b] :
         r \in NameChoices(GoodRealm), s \in NameChoices(GoodSubrealm),
         c \in NameChoices(GoodContainer), t \in NameChoices(GoodTicker),
         b \in {Absent, GoodBitworkc}}

OneNameProfiles ==
    {DefaultProfile,
     [DefaultProfile EXCEPT !.realm = GoodRealm],
     [DefaultProfile EXCEPT !.subrealm = GoodSubrealm],
     [DefaultProfile EXCEPT !.container = GoodContainer],
     [DefaultProfile EXCEPT !.ticker = GoodTicker]}

\* one requested name with every bitworkc and some bitworkr
MintBitworkProfiles ==
    {[p EXCEPT !.bitworkc = c] : p \in OneNameProfiles, c \in BitworkValuesFor(CommitHex)}
    \cup {[p EXCEPT !.bitworkc = c, !.bitworkr = r] :
              p \in {DefaultProfile, [DefaultProfile EXCEPT !.realm = GoodRealm]},
              c \in {Absent, GoodBitworkc},
              r \in {PyInt(5), PyStr(SubSeq(RevealHex, 1, 2)), PyStr(<<"z">>),
                     PyStr(SubSeq(RevealHex, 1, 2) \o <<".", "1", "5">>),
                     PyStr(SubSeq(RevealHex, 1, 2) \o <<".", "1">>)}}

\* names of every kind under each of the four keys, and the claim type and
\* the parent realm of a subrealm
MintNameValues ==
    {n \in NameValues : n.t = "str" => Len(n.s) <= 1 \/ Len(n.s) > MaxNameLen}
        \cup {PyStr(<<"a", "1", "-", "x">>), PyStr(<<"1", "a", "-", "x">>),
              PyStr(<<"a", "b", "\n">>)}

MintNameTextProfiles ==
    {[DefaultProfile EXCEPT !.realm = n, !.bitworkc = GoodBitworkc] : n \in MintNameValues}
    \cup {[DefaultProfile EXCEPT !.subrealm = n] : n \in MintNameValues}
    \cup {[DefaultProfile EXCEPT !.container = n, !.bitworkc = GoodBitworkc] :
              n \in MintNameValues}
    \cup {[DefaultProfile EXCEPT !.ticker = n, !.bitworkc = GoodBitworkc] : n \in MintNameValues}
    \cup {[DefaultProfile EXCEPT !.subrealm = GoodSubrealm, !.claim_type = ct, !.parent_realm = pr] :
              ct \in {Absent, PyStr(<<"r", "u", "l", "e">>), PyStr(<<"x">>), PyInt(1)},
              pr \in {Absent, PyStr(ParentIdB), PyStr(<<"a", "b">>), PyStr(NoHexId),
                      PyStr(NoIndexId), PyInt(1)}}

\* declared parents: one entry with a minimum of every kind
ParentEntries ==
    {Entry(PyStr(id), v) : id \in {ParentIdA, ParentIdB},
                           v \in {PyInt(0), PyInt(5), PyInt(-1), PyBool(TRUE), PyStr(<<"5">>)}}
        \cup {Entry(PyStr(<<"a", "b">>), PyInt(0)), Entry(PyInt(7), PyInt(0)),
              Entry(PyStr(NoIndexId), PyInt(0)), Entry(PyStr(NoHexId), PyInt(0))}

\* the entries that several parents are made of
ParentEntriesOfMany ==
    {Entry(PyStr(id), PyInt(v)) : id \in {ParentIdA, ParentIdB}, v \in {0, 5}}

ParentsValues ==
    {PyDict(<<e>>) : e \in ParentEntries}
        \cup {PyDict(es) : es \in {s \in SeqsUpTo(ParentEntriesOfMany, MaxParents) :
                                       \A i, j \in 1..Len(s) : s[i].k = s[j].k => i = j}}
        \cup {PyList(<<PyStr(ParentIdA)>>), PyInt(1)}

MintParentsProfiles ==
    {[DefaultProfile EXCEPT !.parents = ps] : ps \in ParentsValues}

\* the value field of a spent-input record: the little-endian 64-bit value
\* behind the hashX and the script hash
SpentValueBytes(n) == [i \in 1..43 |-> 0] \o pack_le_uint32(n) \o <<0, 0, 0, 0>>

SpentEntry(id, n) ==
    [atomical_id |-> (compact_to_location_id_bytes(id)).value, value |-> SpentValueBytes(n)]

\* the records of one input
SpentRecords ==
    {<<>>, <<SpentEntry(ParentIdA, 3)>>,
     <<SpentEntry(ParentIdB, 5)>>, <<SpentEntry(ParentIdA, 5), SpentEntry(ParentIdB, 0)>>}

\* atomicals_spent_at_inputs: the records of each input that spends some
SpentInputs ==
    {[i \in 1..Len(s) |-> [idx |-> i - 1, entries |-> s[i]]] :
         s \in SeqsUpTo(SpentRecords, MaxSpentInputs)}

\* the numbers of a dft around the limits, and values that are no numbers
DftValues(lo, hi) ==
    {Absent, PyInt(lo - 1), PyInt(lo), PyInt(hi), PyInt(hi + 1), PyBool(TRUE),
     PyStr(<<"7">>), PyFloat(16384)}

\* a dft with one of its numbers of every kind, with every combination of
\* the limits and a bool, and with a mint bitwork
DftProfile(h, a, m) ==
    [DefaultProfile EXCEPT !.ticker = GoodTicker, !.bitworkc = GoodBitworkc, !.mint_height = h,
                           !.mint_amount = a, !.max_mints = m]

MintDftProfiles ==
    {DftProfile(h, DefaultProfile.mint_amount, DefaultProfile.max_mints) :
         h \in DftValues(DFT_MINT_HEIGHT_MIN, DFT_MINT_HEIGHT_MAX)}
    \cup {DftProfile(DefaultProfile.mint_height, a, DefaultProfile.max_mints) :
              a \in DftValues(DFT_MINT_AMOUNT_MIN, DFT_MINT_AMOUNT_MAX)}
    \cup {DftProfile(DefaultProfile.mint_height, DefaultProfile.mint_amount, m) :
              m \in DftValues(DFT_MINT_MAX_MIN_COUNT, DFT_MINT_MAX_MAX_COUNT)}
    \cup {DftProfile(h, a, m) :
              h \in {PyInt(DFT_MINT_HEIGHT_MIN), PyInt(DFT_MINT_HEIGHT_MAX), PyBool(FALSE)},
              a \in {PyInt(DFT_MINT_AMOUNT_MIN), PyInt(DFT_MINT_AMOUNT_MAX), PyBool(TRUE)},
              m \in {PyInt(DFT_MINT_MAX_MIN_COUNT), PyInt(DFT_MINT_MAX_MAX_COUNT),
                     PyBool(TRUE)}}
    \cup {[DftProfile(PyInt(0), PyInt(DFT_MINT_AMOUNT_MIN), PyInt(1))
               EXCEPT !.ticker = t, !.mint_bitworkc = c, !.mint_bitworkr = r] :
              t \in {GoodTicker, PyStr(<<"T">>)},
              c \in {Absent, PyStr(<<"a", "b">>), PyStr(<<"A">>)},
              r \in {Absent, PyStr(<<"a", "b">>), PyStr(<<"z">>)}}

MintCall(op, input_index, payload, spent) ==
    [fn |-> "get_mint_info_op_factory",
     tx |-> MintTx,
     op_found_struct |-> MintOp(op, input_index, payload),
     atomicals_spent_at_inputs |-> spent]

ArgsPayload(p) == PyDict(<<Entry(K_args, ProfileArgs(p))>>)

MintCalls ==
    {MintCall(op, 0, ArgsPayload(p), <<>>) :
         op \in {"nft", "ft", "dft"}, p \in MintNameProfiles \cup MintNameTextProfiles}
    \cup {MintCall(op, 0, ArgsPayload(p), <<>>) : op \in {"nft", "ft"}, p \in MintBitworkProfiles}
    \cup {MintCall("nft", 0, ArgsPayload(p), spent) :
              p \in MintParentsProfiles, spent \in SpentInputs}
    \cup {MintCall("dft", 0, ArgsPayload(p), <<>>) : p \in MintDftProfiles}
    \cup {MintCall(op, i, ArgsPayload(p), <<>>) :
              op \in {"nft", "ft", "dft", "mod", "dmt"}, i \in {0, 1}, p \in OneNameProfiles}
    \cup {MintCall(op, i, ArgsPayload([DefaultProfile EXCEPT !.parents = PyDict(<<e>>)]), spent) :
              op \in {"nft", "mod"}, i \in {0, 1}, e \in ParentEntries,
              spent \in {s \in SpentInputs : Len(s) <= 1}}
    \cup {MintCall("nft", 0, PyDict(<<Entry(f, v)>>), <<>>) :
              f \in {K_args, K_meta, K_ctx, K_init}, v \in {PyDict(<<>>), PyInt(1), PyNone}}
    \cup {[fn |-> "get_mint_info_op_factory", tx |-> MintTx,
           op_found_struct |-> NoOperationInTx, atomicals_spent_at_inputs |-> <<>>]}

InitMint ==
    /\ call \in MintCalls
    /\ ret = Pending

CallGetMintInfoOpFactory ==
    /\ ret = Pending
    /\ call.fn = "get_mint_info_op_factory"
    /\ ret' = get_mint_info_op_factory(call.tx, call.op_found_struct,
                                       call.atomicals_spent_at_inputs)
    /\ UNCHANGED call

NextMint == CallGetMintInfoOpFactory

SpecMint == InitMint /\ [][NextMint]_vars

(***************************************************************************)
(* Calls of the subrealm rules                                             *)
(***************************************************************************)
MaxRuleHeight == 2    \* rule records have heights 0..MaxRuleHeight
MaxRuleTxNum == 3     \* and tx_num 1..MaxRuleTxNum
MaxHistory == 3       \* records of a history

\* a rule: names of any length cost 1000 paid to the script 5120
RuleFor(p, o) == PyDict(<<Entry(K_p, p), Entry(K_o, o)>>)
GoodOutputs == PyDict(<<Entry(PyStr(<<"5", "1", "2", "0">>), PyInt(1000))>>)
GoodRule == RuleFor(PyStr(<<".", "*">>), GoodOutputs)

RuleDataFor(path, rules) == PyDict(<<Entry(K_path, path), Entry(K_rules, rules)>>)
GoodRuleData == RuleDataFor(PyStr(SUBREALM_MINT_PATH), PyList(<<GoodRule>>))

\* a rule set whose pattern does not compile
BadRuleData ==
    RuleDataFor(PyStr(SUBREALM_MINT_PATH), PyList(<<RuleFor(PyStr(<<"(">>), GoodOutputs)>>))

\* data that is no well-formed rule set, and well-formed data of other kinds
OtherRuleDatas ==
    {PyNone, PyDict(<<>>), PyList(<<GoodRule>>),
     PyDict(<<Entry(K_rules, PyList(<<GoodRule>>))>>),
     RuleDataFor(PyInt(1), PyList(<<GoodRule>>)),
     RuleDataFor(PyStr(<<"/", "s">>), PyList(<<GoodRule>>)),
     PyDict(<<Entry(K_path, PyStr(SUBREALM_MINT_PATH))>>)}
        \cup {RuleDataFor(PyStr(SUBREALM_MINT_PATH), rules) :
                  rules \in {PyList(<<>>), PyDict(<<Entry(K_p, PyInt(1))>>), PyInt(1),
                             PyList(<<PyInt(1)>>), PyList(<<GoodRule, GoodRule>>),
                             PyList(<<GoodRule, PyStr(<<"a">>)>>)}}
        \cup {RuleDataFor(PyStr(SUBREALM_MINT_PATH), PyList(<<RuleFor(p, GoodOutputs)>>)) :
                  p \in {PyNone, PyInt(5), PyBool(TRUE), PyStr(<<>>), PyStr(<<"a", "*", "*">>),
                         PyStr(<<"*", "a">>), PyStr(<<"(", "a", ")", "*">>),
                         PyStr(<<"(", "*", ")">>), PyStr(<<")", "(">>),
                         PyStr(<<"(", "a">>), PyStr(<<"a", ".", "b", "*">>)}}
        \cup {RuleDataFor(PyStr(SUBREALM_MINT_PATH),
                          PyList(<<RuleFor(PyStr(<<".", "*">>), o)>>)) :
                  o \in {PyNone, PyDict(<<>>), PyList(<<>>), PyInt(1)}
                        \cup {PyDict(<<Entry(k, v)>>) :
                                  k \in {PyStr(<<"5", "1", "2", "0">>), PyStr(<<"z", "z">>),
                                         PyStr(<<>>), PyStr(<<"0", "x", "A", "f">>),
                                         PyStr(<<"a", "_", "b">>), PyStr(<<"_", "a">>),
                                         PyStr(<<" ", "f", " ">>), PyStr(<<"-", "f">>),
                                         PyStr(<<"0", "x">>), PyInt(5), PyBytes(<<81>>)},
                                  v \in {PyInt(0)}}
                        \cup {PyDict(<<Entry(PyStr(<<"5", "1", "2", "0">>), v)>>) :
                                  v \in {PyInt(-1), PyInt(0), PyBool(TRUE), PyStr(<<"1">>),
                                         PyFloat(16384), PyNone}}}

\* a rule with a good output and an output of a negative amount
TwoOutputsRuleData ==
    RuleDataFor(PyStr(SUBREALM_MINT_PATH),
                PyList(<<GoodRule,
                         RuleFor(PyStr(<<"a">>),
                                 PyDict(<<Entry(PyStr(<<"5", "1", "2", "0">>), PyInt(7)),
                                          Entry(PyStr(<<"0", "0">>), PyInt(-1))>>))>>))

ModpathItem(height, tx_num, data) ==
    [height |-> height, tx_num |-> tx_num, txid |-> <<tx_num>>, data |-> data]

ModpathItems(datas) ==
    {ModpathItem(height, tx_num, data) :
         height \in 0..MaxRuleHeight, tx_num \in 1..MaxRuleTxNum, data \in datas}

\* histories whose tx_num decrease, in any order of the heights
DecreasingTxNumHistories(datas) ==
    {history \in SeqsUpTo(ModpathItems(datas), MaxHistory) :
         \A i \in 1..(Len(history) - 1) : history[i].tx_num > history[i + 1].tx_num}

\* histories sorted as the index gives them: by decreasing height and tx_num
SortedHistories(datas) ==
    {history \in DecreasingTxNumHistories(datas) :
         \A i \in 1..(Len(history) - 1) : history[i].height >= history[i + 1].height}

\* two records in any order
UnsortedPairs == [1..2 -> ModpathItems({GoodRuleData})]

\* a record of any data at height 2 after a well-formed record at height 1
NewerOverGoodHistories ==
    {<<ModpathItem(2, 2, data), ModpathItem(1, 1, GoodRuleData)>> :
         data \in OtherRuleDatas \cup {GoodRuleData, BadRuleData, TwoOutputsRuleData}}

\* the heights rules are asked for: until the last record is in force
RuleQueryHeights == 0..(MaxRuleHeight + MINT_SUBREALM_RULES_BECOME_EFFECTIVE_IN_BLOCKS + 1)

RuleCalls ==
    {[fn |-> "create_collapsed_height_to_mod_path_history_items_map",
      subrealm_mint_modpath_history |-> history] :
         history \in DecreasingTxNumHistories({GoodRuleData}) \cup UnsortedPairs}
    \cup {[fn |-> "calculate_subrealm_rules_list_as_of_height", height |-> height,
           subrealm_mint_modpath_history |-> history] :
              height \in RuleQueryHeights,
              history \in SortedHistories({GoodRuleData, BadRuleData})}
    \cup {[fn |-> "calculate_subrealm_rules_list_as_of_height", height |-> height,
           subrealm_mint_modpath_history |-> <<ModpathItem(1, 1, data)>>] :
              height \in {MINT_SUBREALM_RULES_BECOME_EFFECTIVE_IN_BLOCKS,
                          MINT_SUBREALM_RULES_BECOME_EFFECTIVE_IN_BLOCKS + 1},
              data \in OtherRuleDatas}
    \cup {[fn |-> "calculate_subrealm_rules_list_as_of_height",
           height |-> MaxRuleHeight + MINT_SUBREALM_RULES_BECOME_EFFECTIVE_IN_BLOCKS,
           subrealm_mint_modpath_history |-> history] : history \in UnsortedPairs}
    \cup {[fn |-> "calculate_subrealm_rules_list_as_of_height", height |-> height,
           subrealm_mint_modpath_history |-> history] :
              height \in {MINT_SUBREALM_RULES_BECOME_EFFECTIVE_IN_BLOCKS + 1,
                          MINT_SUBREALM_RULES_BECOME_EFFECTIVE_IN_BLOCKS + 2},
              history \in NewerOverGoodHistories}

InitRules ==
    /\ call \in RuleCalls
    /\ ret = Pending

CallCreateCollapsedHeightToModPathHistoryItemsMap ==
    /\ ret = Pending
    /\ call.fn = "create_collapsed_height_to_mod_path_history_items_map"
    /\ ret' = create_collapsed_height_to_mod_path_history_items_map(
                  call.subrealm_mint_modpath_history)
    /\ UNCHANGED call

CallCalculateSubrealmRulesListAsOfHeight ==
    /\ ret = Pending
    /\ call.fn = "calculate_subrealm_rules_list_as_of_height"
    /\ ret' = calculate_subrealm_rules_list_as_of_height(
                  call.height, call.subrealm_mint_modpath_history)
    /\ UNCHANGED call

NextRules ==
    \/ CallCreateCollapsedHeightToModPathHistoryItemsMap
    \/ CallCalculateSubrealmRulesListAsOfHeight

SpecRules == InitRules /\ [][NextRules]_vars

(***************************************************************************)
(* Calls of the name candidate status                                      *)
(***************************************************************************)
MaxCommitHeight == 1    \* candidates are committed at heights 0..MaxCommitHeight
MaxRevealGap == 5       \* and revealed at most MaxRevealGap blocks later

\* the status and the winner the index resolved for the name: none, a
\* verified winner, a pending one, or a subrealm winner that has yet to pay
ExternalStatuses ==
    {PyNone, Word("verified"), Word("pending"), Word("pending_awaiting_payment")}

OwnAtomicalId == FtAtomicalId
OtherAtomicalId == FtOtherAtomicalId
WinnerIds == {PyNone, PyBytes(OwnAtomicalId), PyBytes(OtherAtomicalId)}

RevealGaps ==
    {0, MINT_REALM_CONTAINER_TICKER_COMMIT_REVEAL_DELAY_BLOCKS,
     MINT_REALM_CONTAINER_TICKER_COMMIT_REVEAL_DELAY_BLOCKS + 1, MaxRevealGap}

\* the heights a status is asked at: until after the payment deadline
StatusHeights == 0..(MaxCommitHeight + MINT_SUBREALM_COMMIT_PAYMENT_DELAY_BLOCKS + 2)

PaymentTypes == {Word("applicable_rule"), Word("parent_initiated"), PyNone}
PaymentRecord == PyDict(<<Entry(PyStr(<<"t", "x">>), PyStr(<<"a", "b">>))>>)
Payments == {PyNone, PaymentRecord}
ApplicableRules == {PyNone, GoodRule}

Dataset(commit_height, gap, payment_type, payment, applicable_rule) ==
    [commit_height |-> commit_height, reveal_location_height |-> commit_height + gap,
     payment_type |-> payment_type, payment |-> payment, applicable_rule |-> applicable_rule]

\* the competing candidate: committed at height 0, revealed at once, paid
OtherDataset == Dataset(0, 0, Word("applicable_rule"), PaymentRecord, GoodRule)

RawEntry(atomical_id, tx_num) == [value |-> atomical_id, tx_num |-> tx_num]

\* the candidates of the name in the order of the index: the atomical
\* alone, after a competitor, or absent
RawEntryLists ==
    {<<RawEntry(OwnAtomicalId, 7)>>,
     <<RawEntry(OtherAtomicalId, 5), RawEntry(OwnAtomicalId, 7)>>}
RawEntryListsWithoutOwn == {<<>>, <<RawEntry(OtherAtomicalId, 5)>>}

CandidateInfoMap(dataset) ==
    (OwnAtomicalId :> dataset) @@ (OtherAtomicalId :> OtherDataset)

\* an id that location_id_bytes_to_compact writes and
\* compact_to_location_id_bytes refuses: the index is above 100000
FarAtomicalId == [i \in 1..32 |-> i] \o pack_le_uint32(16777216)

FormatCalls ==
    {[fn |-> "format_name_type_candidates_to_rpc_for_subrealm", raw_entries |-> raw_entries,
      atomical_id_to_candidate_info_map |-> CandidateInfoMap(dataset)] :
         raw_entries \in RawEntryLists \cup RawEntryListsWithoutOwn,
         dataset \in {Dataset(commit_height, 0, payment_type, payment, applicable_rule) :
                          commit_height \in 0..MaxCommitHeight, payment_type \in PaymentTypes,
                          payment \in Payments, applicable_rule \in ApplicableRules}}
    \cup {[fn |-> "format_name_type_candidates_to_rpc_for_subrealm",
           raw_entries |-> <<RawEntry(OwnAtomicalId, 7), RawEntry(FarAtomicalId, 8)>>,
           atomical_id_to_candidate_info_map |->
               (FarAtomicalId :> OtherDataset) @@ CandidateInfoMap(OtherDataset)]}

AtomicalInfo(dataset) ==
    [atomical_id |-> PyBytes(OwnAtomicalId),
     mint_info |-> [commit_height |-> dataset.commit_height,
                    reveal_location_height |-> dataset.reveal_location_height]]

\* the atomical with the candidates of its subrealm as the formatter gives them
SubrealmAtomicalInfo(dataset, raw_entries) ==
    [subrealm_candidates |->
         format_name_type_candidates_to_rpc_for_subrealm(
             raw_entries, CandidateInfoMap(dataset)).value]
        @@ AtomicalInfo(dataset)

NameStatusCalls ==
    {[fn |-> "get_name_request_candidate_status", current_height |-> current_height,
      atomical_info |-> AtomicalInfo(Dataset(commit_height, gap, PyNone, PyNone, PyNone)),
      status |-> status, candidate_id |-> candidate_id, name_type |-> name_type] :
         current_height \in {0, MaxCommitHeight + MaxRevealGap},
         commit_height \in 0..MaxCommitHeight, gap \in 0..MaxRevealGap,
         status \in ExternalStatuses, candidate_id \in WinnerIds,
         name_type \in {"realm", "container", "ticker", "subrealm"}}

SubrealmStatusCalls ==
    {[fn |-> "get_subrealm_request_candidate_status", current_height |-> current_height,
      atomical_info |-> atomical_info, status |-> status, candidate_id |-> candidate_id] :
         current_height \in StatusHeights, status \in ExternalStatuses,
         candidate_id \in WinnerIds,
         atomical_info \in
             {SubrealmAtomicalInfo(
                  Dataset(commit_height, gap, payment_type, payment, applicable_rule),
                  raw_entries) :
                  commit_height \in 0..MaxCommitHeight, gap \in RevealGaps,
                  payment_type \in PaymentTypes, payment \in Payments,
                  applicable_rule \in ApplicableRules, raw_entries \in RawEntryLists}
             \cup {SubrealmAtomicalInfo(Dataset(0, gap, Word("applicable_rule"), PyNone, GoodRule),
                                        raw_entries) :
                       gap \in RevealGaps, raw_entries \in RawEntryListsWithoutOwn}}

StatusCalls == FormatCalls \cup NameStatusCalls \cup SubrealmStatusCalls

InitStatus ==
    /\ call \in StatusCalls
    /\ ret = Pending

CallFormatNameTypeCandidatesToRpcForSubrealm ==
    /\ ret = Pending
    /\ call.fn = "format_name_type_candidates_to_rpc_for_subrealm"
    /\ ret' = format_name_type_candidates_to_rpc_for_subrealm(
                  call.raw_entries, call.atomical_id_to_candidate_info_map)
    /\ UNCHANGED call

CallGetNameRequestCandidateStatus ==
    /\ ret = Pending
    /\ call.fn = "get_name_request_candidate_status"
    /\ ret' = get_name_request_candidate_status(
                  call.current_height, call.atomical_info, call.status, call.candidate_id,
                  call.name_type)
    /\ UNCHANGED call

CallGetSubrealmRequestCandidateStatus ==
    /\ ret = Pending
    /\ call.fn = "get_subrealm_request_candidate_status"
    /\ ret' = get_subrealm_request_candidate_status(
                  call.current_height, call.atomical_info, call.status, call.candidate_id)
    /\ UNCHANGED call

NextStatus ==
    \/ CallFormatNameTypeCandidatesToRpcForSubrealm
    \/ CallGetNameRequestCandidateStatus
    \/ CallGetSubrealmRequestCandidateStatus

SpecStatus == InitStatus /\ [][NextStatus]_vars

(***************************************************************************)
(* Calls of the payment marker reader                                      *)
(***************************************************************************)
MaxMarkerSlack == 2    \* bytes more or fewer than the 36 of an id

\* what stands before the marker: OP_RETURN, alone or with a 00 byte on
\* either side, and other bytes
MarkerPrefixes ==
    {<<OP_RETURN>>, <<0, OP_RETURN>>, <<OP_RETURN, 0>>, <<0>>, <<OP_IF>>, <<>>,
     <<0, 0, OP_RETURN>>, <<1, OP_RETURN>>}

MarkerTexts ==
    {ATOMICALS_ENVELOPE_MARKER_BYTES, <<4, 97, 116, 111, 110>>, <<5, 97, 116, 111, 109>>}

\* 01 "p", and other operation pushes
MarkerOperations == {<<1, 112>>, <<1, 113>>, <<2, 112>>, <<112>>}

\* the push of a 36-byte id, and other pushes
MarkerPushes == {<<PAYMENT_MARKER_ID_LEN>>, <<PAYMENT_MARKER_ID_LEN - 1>>, <<>>}

MarkerIdBytes ==
    {[i \in 1..n |-> 200 + (i % 50)] :
         n \in (PAYMENT_MARKER_ID_LEN - MaxMarkerSlack)..(PAYMENT_MARKER_ID_LEN + MaxMarkerSlack)}

MarkerScripts ==
    {prefix \o marker \o operation \o push \o id :
         prefix \in MarkerPrefixes, marker \in MarkerTexts, operation \in MarkerOperations,
         push \in MarkerPushes, id \in MarkerIdBytes}
        \cup {<<>>, <<OP_RETURN>>, <<OP_RETURN>> \o ATOMICALS_ENVELOPE_MARKER_BYTES}

InitMarker ==
    /\ call \in {[fn |-> "is_op_return_payment_marker_atomical_id", script |-> script] :
                     script \in MarkerScripts}
    /\ ret = Pending

CallIsOpReturnPaymentMarkerAtomicalId ==
    /\ ret = Pending
    /\ call.fn = "is_op_return_payment_marker_atomical_id"
    /\ ret' = is_op_return_payment_marker_atomical_id(call.script)
    /\ UNCHANGED call

NextMarker == CallIsOpReturnPaymentMarkerAtomicalId

SpecMarker == InitMarker /\ [][NextMarker]_vars

(***************************************************************************)
(* Claims about the FT output distributor                                  *)
(***************************************************************************)
\* the sum of the values of the outputs with 0-based index in [from, to)
RECURSIVE SumOutputs(_, _, _)
SumOutputs(outputs, from, to) ==
    IF from >= to THEN 0 ELSE outputs[from + 1] + SumOutputs(outputs, from + 1, to)

\* the number of leading outputs a skip of S passes over: the shortest prefix
\* whose values add up to S or more, all the outputs when no prefix does
SkippedPrefixLen(outputs, S) ==
    IF S <= 0 THEN 0
    ELSE IF \E j \in 1..Len(outputs) : SumOutputs(outputs, 0, j) >= S
    THEN CHOOSE j \in 1..Len(outputs) :
             /\ SumOutputs(outputs, 0, j) >= S
             /\ \A i \in 1..(j - 1) : SumOutputs(outputs, 0, i) < S
    ELSE Len(outputs)

FtReturned == ret.state = "returned"

\* C1: after the skipped prefix the outputs are coloured in index order, each
\* exactly while its value is at most the value still remaining; the first
\* output that exceeds the remaining value and all outputs after it stay
\* uncoloured.  Value 1000 over outputs 400, 400, 300 colours outputs 0 and 1.
C1_ColourWhileValueFits ==
    /\ FtReturned =>
          LET outs == call.outputs
              V == call.mint_info.value
              k == Len(ret.skipped)
              idx == ret.expected_output_indexes
              m == k + Len(idx)
          IN  /\ idx = [j \in 1..Len(idx) |-> k + j - 1]
              /\ \A j \in k..(m - 1) : outs[j + 1] <= V - SumOutputs(outs, k, j)
              /\ m < Len(outs) => outs[m + 1] > V - SumOutputs(outs, k, m)
              /\ ret.remaining_value = V - SumOutputs(outs, k, m)
    /\ get_expected_output_indexes_of_atomical_ft([type |-> "FT", value |-> 1000],
           <<400, 400, 300>>, FtAtomicalId, NoOperation).expected_output_indexes = <<0, 1>>

\* a call in which colouring stopped at an output that did not fit although a
\* later output would have fitted in the remaining value
C1_Witness ==
    /\ FtReturned
    /\ Len(ret.expected_output_indexes) > 0
    /\ LET outs == call.outputs
           m == Len(ret.skipped) + Len(ret.expected_output_indexes)
       IN  /\ m < Len(outs)
           /\ \E j \in (m + 1)..(Len(outs) - 1) :
                  outs[j + 1] > 0 /\ outs[j + 1] <= ret.remaining_value

\* C2: the skip amount is the payload's entry for this atomical when the
\* operation is y at input 0 and that entry is a non-negative integer, and 0 in
\* every other case; the outputs skipped are the shortest prefix whose values
\* add up to the skip amount or more, and colouring starts right after it.
C2_SkipOnlyForNonNegativeInteger ==
    FtReturned =>
        LET ops == call.ops
            x == dict_get(ops.payload, PyStr(location_id_bytes_to_compact(call.atomical_id)))
            honoured == ops.op = "y" /\ ops.input_index = 0 /\ x.t = "int" /\ x.i >= 0
            S == IF honoured THEN x.i ELSE 0
            k == SkippedPrefixLen(call.outputs, S)
        IN  /\ ret.total_amount_to_skip = S
            /\ ret.skipped = [j \in 1..k |-> j - 1]
            /\ \A j \in 1..Len(ret.expected_output_indexes) :
                   ret.expected_output_indexes[j] >= k

\* the sum of the values of the outputs at the 0-based indices idx
RECURSIVE SumColoured(_, _)
SumColoured(outputs, idx) ==
    IF Len(idx) = 0 THEN 0 ELSE outputs[Head(idx) + 1] + SumColoured(outputs, Tail(idx))

\* C28: the values of the outputs returned sum to at most the value of the
\* mint record (colouring never creates token units); the returned indices
\* are strictly increasing and form one contiguous run of output indices,
\* which starts right after the skipped prefix.
C28_ColouredWithinValueAndContiguous ==
    FtReturned =>
        LET idx == ret.expected_output_indexes
            k == Len(ret.skipped)
        IN  /\ SumColoured(call.outputs, idx) <= call.mint_info.value
            /\ \A j \in 1..Len(idx) : idx[j] \in 0..(Len(call.outputs) - 1)
            /\ \A i, j \in 1..Len(idx) : i < j => idx[i] < idx[j]
            /\ \A j \in 1..(Len(idx) - 1) : idx[j + 1] = idx[j] + 1
            /\ ret.skipped = [j \in 1..k |-> j - 1]
            /\ Len(idx) > 0 => idx[1] = k

\* a call that skipped a prefix and coloured two outputs of positive value
\* behind it, which use up the whole value of the record
C28_Witness ==
    /\ FtReturned
    /\ Len(ret.skipped) > 0
    /\ Len(ret.expected_output_indexes) >= 2
    /\ \A j \in 1..Len(ret.expected_output_indexes) :
           call.outputs[ret.expected_output_indexes[j] + 1] > 0
    /\ SumColoured(call.outputs, ret.expected_output_indexes) = call.mint_info.value

(***************************************************************************)
(* Claims about bitwork strings and the bitwork matcher                    *)
(***************************************************************************)
\* the text has the form prefix or prefix.ext with prefix in [a-z0-9]{1,64}
\* and ext, when present, an integer in [0,15]
WellFormedBitworkText(text) ==
    LET dot == str_find(text, ".")
        prefix == IF dot < 0 THEN text ELSE SubSeq(text, 1, dot)
        ext == py_int(SubSeq(text, dot + 2, Len(text)))
    IN  /\ str_count(text, ".") <= 1
        /\ Len(prefix) \in 1..POW_PREFIX_MAX_LEN
        /\ \A i \in 1..Len(prefix) : prefix[i] \in LowerAlnum
        /\ dot >= 0 => (ext.ok /\ ext.value \in 0..POW_PREFIX_EXT_MAX)

\* C4: is_valid_bitwork_string accepts exactly the strings prefix or
\* prefix.ext with prefix in [a-z0-9]{1,64} and ext an integer in [0,15], and
\* answers (None, None) to everything else.
C4_AcceptsExactlyWellFormedBitwork ==
    (call.fn = "is_valid_bitwork_string" /\ ret.state = "returned") =>
        (ret.accepted <=> (call.bitwork.t = "str" /\ WellFormedBitworkText(call.bitwork.s)))

BwValidExt(ext) == ext = PyNone \/ (ext.t = "int" /\ ext.i \in 0..POW_PREFIX_EXT_MAX)

\* the txid starts with the prefix and, when an ext is given, the hex digit
\* right after the prefix is at least ext
BwShouldMatch(txid, prefix, ext) ==
    /\ str_startswith(txid, prefix)
    /\ (ext # PyNone /\ Len(prefix) < Len(txid)) =>
           HexDigitValue(txid[Len(prefix) + 1]) >= ext.i

\* C5: for a prefix of 1 to 64 characters and an ext that is absent or in
\* [0,15], is_proof_of_work_prefix_match returns a boolean, true exactly when
\* the txid starts with the prefix and the hex digit after the prefix (if an
\* ext is given) is >= ext; also when the prefix is as long as the txid.
C5_PrefixMatchReturnsBoolean ==
    (/\ call.fn = "is_proof_of_work_prefix_match"
     /\ ret # Pending
     /\ BwValidExt(call.powprefix_ext)) =>
        /\ ret.state = "returned"
        /\ ret.value = BwShouldMatch(hash_to_hex_str(call.tx_hash), call.powprefix,
                                     call.powprefix_ext)

BwAccepts(tx_hash, prefix, ext) ==
    is_proof_of_work_prefix_match(tx_hash, prefix, ext) = [state |-> "returned", value |-> TRUE]

\* C6: when the matcher accepts a txid and prefix with ext e, it accepts the
\* same txid and prefix with every lower ext and with no ext.
C6_MatchMonotoneInExt ==
    (/\ call.fn = "is_proof_of_work_prefix_match"
     /\ ret = [state |-> "returned", value |-> TRUE]
     /\ call.powprefix_ext.t = "int") =>
        /\ BwAccepts(call.tx_hash, call.powprefix, PyNone)
        /\ \A lower \in 0..(call.powprefix_ext.i - 1) :
               BwAccepts(call.tx_hash, call.powprefix, PyInt(lower))

\* a match accepted with an ext above 1, so that lower exts exist
C6_Witness ==
    /\ call.fn = "is_proof_of_work_prefix_match"
    /\ ret = [state |-> "returned", value |-> TRUE]
    /\ call.powprefix_ext.t = "int"
    /\ call.powprefix_ext.i >= 2

(***************************************************************************)
(* Claims about the atomical-id codec                                      *)
(***************************************************************************)
\* the text is a decimal numeral: digits only
IsDecimalText(t) == Len(t) > 0 /\ \A i \in 1..Len(t) : IsDecDigit(t[i])

\* 64 hex characters, "i", and a decimal index in [0,100000]
ValidCompactId(s) ==
    /\ Len(s) > COMPACT_ID_INDEX_OF_I + 1
    /\ \A i \in 1..COMPACT_ID_INDEX_OF_I : IsHexChar(s[i])
    /\ s[COMPACT_ID_INDEX_OF_I + 1] = "i"
    /\ LET t == SubSeq(s, COMPACT_ID_INDEX_OF_I + 2, Len(s))
       IN  IsDecimalText(t) /\ digits_value(t, 0) <= COMPACT_ID_MAX_INDEX

\* the same in the one form location_id_bytes_to_compact writes: lower-case
\* hex digits and an index without leading zeros
CanonicalCompactId(s) ==
    /\ ValidCompactId(s)
    /\ \A i \in 1..COMPACT_ID_INDEX_OF_I : \E d \in 1..16 : HexDigits[d] = s[i]
    /\ (s[COMPACT_ID_INDEX_OF_I + 2] = "0" => Len(s) = COMPACT_ID_INDEX_OF_I + 2)

\* a 36-byte id whose index is in [0,100000]
ValidLocationId(b) ==
    Len(b) = 36 /\ unpack_le_uint32_from(SubSeq(b, 33, 36)) <= COMPACT_ID_MAX_INDEX

\* binary -> compact -> binary gives the id back
IdBinaryRoundTrip ==
    (/\ call.fn = "location_id_bytes_to_compact"
     /\ ret.state = "returned"
     /\ ValidLocationId(call.location_id)) =>
        compact_to_location_id_bytes(ret.value) =
            [state |-> "returned", value |-> call.location_id]

\* C7 as stated: every valid compact id (64 hex characters, "i", a decimal
\* index in [0,100000]) is converted and comes back unchanged from
\* compact -> binary -> compact, and every valid 36-byte id from
\* binary -> compact -> binary.
C7_RoundTripEveryValidId ==
    /\ (/\ call.fn = "compact_to_location_id_bytes"
        /\ ret # Pending
        /\ ValidCompactId(call.value)) =>
           /\ ret.state = "returned"
           /\ location_id_bytes_to_compact(ret.value) = call.value
    /\ IdBinaryRoundTrip

\* C7 amended: the round trip compact -> binary -> compact gives back every
\* valid compact id written in canonical form (lower-case hex, index without
\* leading zeros); every other valid compact id is converted too and comes
\* back as the canonical form of the same id.  binary -> compact -> binary
\* gives back every 36-byte id with an index in [0,100000].
C7_RoundTripCanonicalId ==
    /\ (/\ call.fn = "compact_to_location_id_bytes"
        /\ ret # Pending
        /\ ValidCompactId(call.value)) =>
           /\ ret.state = "returned"
           /\ Len(ret.value) = 36
           /\ CanonicalCompactId(location_id_bytes_to_compact(ret.value))
           /\ CanonicalCompactId(call.value) <=>
                  location_id_bytes_to_compact(ret.value) = call.value
           /\ compact_to_location_id_bytes(location_id_bytes_to_compact(ret.value)) = ret
    /\ IdBinaryRoundTrip

\* a canonical compact id with an index of several digits has been converted
C7_Witness ==
    /\ call.fn = "compact_to_location_id_bytes"
    /\ ret.state = "returned"
    /\ CanonicalCompactId(call.value)
    /\ unpack_le_uint32_from(SubSeq(ret.value, 33, 36)) > 255

\* C8: compact_to_location_id_bytes raises, and returns nothing, when the
\* first "i" is not at offset 64, when the 64 characters before it are not the
\* hex of exactly 32 bytes, or when the text after it is not a number in
\* [0,100000]; a value it does return is 36 bytes long.
C8_MalformedCompactIdRaises ==
    (call.fn = "compact_to_location_id_bytes" /\ ret # Pending) =>
        LET s == call.value
            suffix == py_int(SubSeq(s, COMPACT_ID_INDEX_OF_I + 2, Len(s)))
            i_at_64 == /\ Len(s) > COMPACT_ID_INDEX_OF_I
                       /\ s[COMPACT_ID_INDEX_OF_I + 1] = "i"
                       /\ \A j \in 1..COMPACT_ID_INDEX_OF_I : s[j] # "i"
            hex_of_32_bytes == /\ Len(s) >= COMPACT_ID_INDEX_OF_I
                               /\ \A j \in 1..COMPACT_ID_INDEX_OF_I : IsHexChar(s[j])
            index_in_range == suffix.ok /\ suffix.value \in 0..COMPACT_ID_MAX_INDEX
        IN  /\ (~i_at_64 \/ ~hex_of_32_bytes \/ ~index_in_range) => ret.state = "raised"
            /\ ret.state = "returned" => Len(ret.value) = 36

\* a text with the "i" at offset 64 and 32 bytes of hex before it was refused
\* for its index alone
C8_Witness ==
    /\ call.fn = "compact_to_location_id_bytes"
    /\ ret.state = "raised"
    /\ Len(call.value) > COMPACT_ID_INDEX_OF_I + 1
    /\ call.value[COMPACT_ID_INDEX_OF_I + 1] = "i"
    /\ \A j \in 1..COMPACT_ID_INDEX_OF_I : IsHexChar(call.value[j])
    /\ IsDecimalText(SubSeq(call.value, COMPACT_ID_INDEX_OF_I + 2, Len(call.value)))

(***************************************************************************)
(* Claims about the transaction parser and the witness scan                *)
(***************************************************************************)
\* a byte string at any depth of a decoded value: in a map or in a list
RECURSIVE ContainsBytes(_)
ContainsBytes(x) ==
    CASE x.t = "bytes" -> TRUE
      [] x.t = "dict" -> \E e \in 1..Len(x.d) : ContainsBytes(x.d[e].v)
      [] x.t = "list" -> \E e \in 1..Len(x.l) : ContainsBytes(x.l[e])
      [] OTHER -> FALSE

TxOperationReturned ==
    /\ call.fn = "parse_protocols_operations_from_witness_array"
    /\ ret.state = "returned"
    /\ ret.op # "none"

\* the payload {"n": 7, "init": v} for a map v that holds a byte string
InitBytesPayloads ==
    {dumps(PyDict(<<Entry(PyStr(<<"n">>), PyInt(7)), Entry(PyStr(<<"i", "n", "i", "t">>), v)>>)) :
         v \in TxBytesFieldValues}

\* C3: no operation is returned whose decoded payload has a byte string
\* anywhere in its meta, args or ctx (nested in a map at any depth, at any
\* position among the entries, or in a list); a byte string in init does not
\* cause rejection: an operation in the first input whose payload has init as
\* its only field, with bytes in it, is returned.
C3_BytesInMetaArgsCtxRejected ==
    /\ TxOperationReturned =>
           \A f \in {<<"m", "e", "t", "a">>, <<"a", "r", "g", "s">>, <<"c", "t", "x">>} :
               ~ContainsBytes(dict_get(ret.payload, PyStr(f)))
    /\ (/\ call.fn = "parse_protocols_operations_from_witness_array"
        /\ ret.state # "pending"
        /\ call.tx.has_witness
        /\ Len(call.witnesses[1]) = 3
        /\ call.witnesses[1][2].payload \in InitBytesPayloads)
           => /\ ret.state = "returned"
              /\ ret.op = call.witnesses[1][2].op
              /\ ret.payload_bytes = call.witnesses[1][2].payload
              /\ ContainsBytes(dict_get(ret.payload, PyStr(<<"i", "n", "i", "t">>)))

\* the positions of the witness elements that hold an envelope with an
\* operation code of the protocol (the payload behind it well formed or not)
LocatedOperations(elements) ==
    {i \in 1..Len(elements) : elements[i].kind \in {"op", "overrun"}}

FirstLocated(elements) ==
    CHOOSE k \in LocatedOperations(elements) : \A i \in LocatedOperations(elements) : k <= i

\* C9: the operation and payload the witness scan of one input returns are
\* those of the lowest-index element that holds an envelope with an operation
\* code of the protocol, and the scan has examined no element behind it;
\* elements before it without an envelope or with an unknown operation code do
\* not stop the scan: when that element is well formed, its operation is
\* returned.
C9_FirstLocatedOperationWins ==
    (call.fn = "parse_protocols_operations_from_witness_for_input" /\ ret.state # "pending") =>
        LET elements == call.elements
            k == FirstLocated(elements)
        IN  /\ (ret.state = "returned" /\ ret.op # "none") =>
                   /\ LocatedOperations(elements) # {}
                   /\ ret.op = elements[k].op
                   /\ ret.payload = elements[k].payload
                   /\ ret.examined = k
            /\ (LocatedOperations(elements) # {} /\ elements[k].kind = "op") =>
                   /\ ret.state = "returned"
                   /\ ret.op = elements[k].op

\* an operation returned from the second of three elements: the first has an
\* unknown operation code, the third holds another operation
C9_Witness ==
    /\ call.fn = "parse_protocols_operations_from_witness_for_input"
    /\ Len(call.elements) = 3
    /\ call.elements[1].kind = "badop"
    /\ call.elements[2].kind = "op"
    /\ call.elements[3].kind = "op"
    /\ call.elements[3].op # call.elements[2].op
    /\ ret.state = "returned"
    /\ ret.op = call.elements[2].op
    /\ ret.examined = 2

\* the positions (1-based) of the OP_IF bytes behind the key of a witness
\* element that are immediately followed by the envelope marker
EnvelopePositions(script) ==
    {p \in 34..(Len(script) - 5) :
        /\ script[p] = OP_IF
        /\ SubSeq(script, p + 1, p + 5) = ATOMICALS_ENVELOPE_MARKER_BYTES}

FirstEnvelopePosition(script) ==
    CHOOSE p \in EnvelopePositions(script) : \A q \in EnvelopePositions(script) : p <= q

\* the element starts with the push of a 32-byte key and holds an envelope
HoldsEnvelope(script) ==
    /\ Len(script) >= 39
    /\ script[1] = 32
    /\ EnvelopePositions(script) # {}

\* an operation code of the protocol stands right behind the first envelope
\* marker of the element
OperationBehindFirstEnvelope(script) ==
    \E code \in AtomOpCodes3 \cup AtomOpCodes2 \cup AtomOpCodes1 :
        /\ FirstEnvelopePosition(script) + 5 + Len(code.bytes) < Len(script)
        /\ SubSeq(script, FirstEnvelopePosition(script) + 6,
                  FirstEnvelopePosition(script) + 5 + Len(code.bytes)) = code.bytes

WitnessCallDone ==
    call.fn = "parse_protocols_operations_from_witness_for_input" /\ ret.state # "pending"

\* C27 as stated: a witness element is recognised as carrying an envelope
\* only if the OP_IF byte comes immediately after the 32-byte pushed key at
\* the start of the element and is immediately followed by the marker bytes
\* 0461746f6d; an element in which other bytes stand between the pushed key
\* and the OP_IF+marker yields no operation.
C27_EnvelopeOnlyRightBehindKey ==
    (WitnessCallDone /\ ret.state = "returned" /\ ret.op # "none") =>
        /\ HoldsEnvelope(call.txinwitness[ret.examined])
        /\ FirstEnvelopePosition(call.txinwitness[ret.examined]) = 34

\* C27 amended: a witness element is recognised as carrying an envelope only
\* if it is at least 39 bytes long, starts with the push of a 32-byte key and
\* holds, anywhere behind the key, an OP_IF byte immediately followed by the
\* marker bytes 0461746f6d; bytes between the key and the OP_IF do not stand
\* in the way.  The operation is read right behind the first such OP_IF and
\* marker: the scan returns the operation of the first element where an
\* operation code of the protocol stands there, and passes over every
\* element before it.
C27_EnvelopeAnywhereBehindKey ==
    WitnessCallDone =>
        LET carriers == {i \in 1..Len(call.txinwitness) :
                            /\ HoldsEnvelope(call.txinwitness[i])
                            /\ OperationBehindFirstEnvelope(call.txinwitness[i])}
        IN  /\ (ret.state = "returned" /\ ret.op # "none") =>
                   /\ ret.examined \in carriers
                   /\ \A i \in carriers : ret.examined <= i
                   /\ ret.op = call.elements[ret.examined].op
            /\ (ret.state = "returned" /\ ret.op = "none") => carriers = {}
            /\ ret.state = "raised" => carriers # {}

\* the operation of the second element is returned: OP_CHECKSIG OP_0 stand
\* between its key and its OP_IF; the first element holds an envelope too,
\* with no operation code of the protocol behind it
C27_Witness ==
    /\ WitnessCallDone
    /\ Len(call.txinwitness) = 2
    /\ HoldsEnvelope(call.txinwitness[1])
    /\ ~OperationBehindFirstEnvelope(call.txinwitness[1])
    /\ HoldsEnvelope(call.txinwitness[2])
    /\ FirstEnvelopePosition(call.txinwitness[2]) = 36
    /\ ret.state = "returned"
    /\ ret.op = call.elements[2].op
    /\ ret.examined = 2

\* the witnesses with every element whose payload push is malformed replaced
\* by an element that holds no operation
WithoutMalformedPush(witnesses) ==
    [i \in 1..Len(witnesses) |->
        [j \in 1..Len(witnesses[i]) |->
            IF witnesses[i][j].kind = "overrun" THEN TxSignature ELSE witnesses[i][j]]]

\* C10: a witness element with envelope and operation code whose payload has
\* a push longer than the rest of the script counts as an element without an
\* operation: the parser raises no error and returns what it returns for the
\* transaction with such elements replaced by elements without an operation
\* (the operation of a later element or input included).
C10_MalformedPushIsNoOperation ==
    (/\ call.fn = "parse_protocols_operations_from_witness_array"
     /\ ret.state # "pending"
     /\ call.tx.has_witness) =>
        /\ ret.state = "returned"
        /\ ret = parse_protocols_operations_from_witness_array(
                     Tx(WithoutMalformedPush(call.witnesses), TRUE), call.tx_hash)

\* the first element of the witness of one input that holds an envelope with
\* an operation code, or 0
FirstLocatedOrNone(elements) ==
    IF LocatedOperations(elements) = {} THEN 0 ELSE FirstLocated(elements)

\* the operation the scan of this input locates has a payload that is no
\* CBOR map
InputWithBadPayload(elements) ==
    /\ FirstLocatedOrNone(elements) > 0
    /\ elements[FirstLocatedOrNone(elements)] \in TxBadPayloadElements

TxCallReturned ==
    /\ call.fn = "parse_protocols_operations_from_witness_array"
    /\ ret.state # "pending"
    /\ call.tx.has_witness

\* C11 as stated: a payload that fails CBOR decoding or is no map makes the
\* parser skip that witness element only: a well-formed operation in a later
\* element of the same input is returned, and so is one in a later input.
C11_BadPayloadSkipsElementOnly ==
    TxCallReturned =>
        LET first == call.witnesses[1] IN
        /\ (Len(first) = 2 /\ first[1] \in TxBadPayloadElements /\ first[2] = TxCleanElement) =>
               /\ ret.state = "returned"
               /\ ret.op = TxCleanElement.op
               /\ ret.payload_bytes = TxCleanElement.payload
        /\ (/\ Len(call.witnesses) = 2
            /\ Len(first) = 3
            /\ first[2] \in TxBadPayloadElements
            /\ call.witnesses[2] = <<TxSignature, TxCleanElement, TxControlBlock>>) =>
               /\ ret.state = "returned"
               /\ ret.op = TxCleanElement.op
               /\ ret.payload_bytes = TxCleanElement.payload

\* the witnesses with every input whose located operation has a payload that
\* is no CBOR map replaced by an input that holds no operation
WithoutBadPayloadInputs(witnesses) ==
    [i \in 1..Len(witnesses) |->
        IF InputWithBadPayload(witnesses[i]) THEN <<TxSignature>> ELSE witnesses[i]]

\* C11 amended: a payload that fails CBOR decoding or is no map makes the
\* parser skip that whole input, as if the input held no operation: the
\* elements behind it in the same input are not tried, the later inputs are,
\* and the parser ends as it does for the transaction without such inputs.
C11_BadPayloadSkipsInput ==
    TxCallReturned =>
        /\ ret = parse_protocols_operations_from_witness_array(
                     Tx(WithoutBadPayloadInputs(call.witnesses), TRUE), call.tx_hash)
        /\ (ret.state = "returned" /\ ret.op # "none") =>
               \E i \in 1..Len(call.witnesses) :
                   /\ ~InputWithBadPayload(call.witnesses[i])
                   /\ FirstLocatedOrNone(call.witnesses[i]) > 0
                   /\ ret.payload_bytes =
                          call.witnesses[i][FirstLocatedOrNone(call.witnesses[i])].payload

\* the first input holds an undecodable payload and a well-formed operation
\* behind it, the second input a well-formed operation, which is returned
C11_Witness ==
    /\ TxCallReturned
    /\ Len(call.witnesses) = 2
    /\ Len(call.witnesses[1]) = 2
    /\ call.witnesses[1][1] \in TxBadPayloadElements
    /\ call.witnesses[1][2] = TxCleanElement
    /\ call.witnesses[2] = <<TxSignature, TxCleanElement, TxControlBlock>>
    /\ ret.state = "returned"
    /\ ret.op = TxCleanElement.op

\* the operation returned was located in the witness of the i-th input
CarriesReturnedOperation(i) ==
    \E located \in {parse_protocols_operations_from_witness_for_input(call.tx.witness[i])} :
        /\ located.state = "returned"
        /\ located.op = ret.op
        /\ located.payload = ret.payload_bytes

\* C25: whenever parse_protocols_operations_from_witness_array returns an
\* operation, its input_index is the position in tx.witness of the input
\* whose witness carried that operation, and commit_txid / commit_index are
\* the previous-output reference of that same input, also when earlier
\* inputs carried no operation or one whose payload was rejected.
C25_InputIndexIsPositionOfCarrier ==
    (TxCallReturned /\ ret.state = "returned" /\ ret.op # "none") =>
        /\ ret.input_index + 1 \in 1..Len(call.tx.witness)
        /\ CarriesReturnedOperation(ret.input_index + 1)
        /\ ret.commit_txid = call.tx.inputs[ret.input_index + 1].prev_hash
        /\ ret.commit_index = call.tx.inputs[ret.input_index + 1].prev_idx

(***************************************************************************)
(* Claims about the mint information builder                               *)
(***************************************************************************)
MintCallDone == call.fn = "get_mint_info_op_factory" /\ ret # Pending

\* the call returned a mint
MintReturned == MintCallDone /\ ret.state = "returned" /\ ret.type # "none"

\* the args of the call's operation; no args when there is no operation or
\* args is no dict
ArgsOfCall ==
    IF call.op_found_struct.op = "none" THEN PyDict(<<>>)
    ELSE LET args == dict_get(call.op_found_struct.payload, K_args)
         IN  IF args.t = "dict" THEN args ELSE PyDict(<<>>)

ArgOfCall(key) == dict_get(ArgsOfCall, key)

\* the requested names that are set (have a truthy value)
RequestedNamesOfCall ==
    {key \in {K_request_realm, K_request_subrealm, K_request_container, K_request_ticker} :
         truthy(ArgOfCall(key))}

\* C12: get_mint_info_op_factory returns no mint whenever more than one of
\* args.request_realm, args.request_subrealm, args.request_container and
\* args.request_ticker is set, for every operation type and whatever the
\* other arguments are.
C12_SeveralNamesNoMint ==
    (MintCallDone /\ Cardinality(RequestedNamesOfCall) > 1) => ~MintReturned

\* an nft with a valid realm, a valid subrealm and a satisfied bitworkc, each
\* of which alone gives a mint, gives none
C12_Witness ==
    /\ MintCallDone
    /\ call.op_found_struct.op = "nft"
    /\ call.op_found_struct.input_index = 0
    /\ ArgOfCall(K_request_realm) = GoodRealm
    /\ ArgOfCall(K_request_subrealm) = GoodSubrealm
    /\ RequestedNamesOfCall = {K_request_realm, K_request_subrealm}
    /\ ArgOfCall(K_bitworkc) = GoodBitworkc
    /\ ret = NoMint

RequestKeys == {"$request_realm", "$request_subrealm", "$request_container", "$request_ticker"}

\* C13: every mint information returned carries at most one of the keys
\* $request_realm, $request_subrealm, $request_container and $request_ticker;
\* an FT mint (direct or decentralized) carries $request_ticker and no other
\* of them, and an NFT mint never carries $request_ticker.
C13_AtMostOneRequestKey ==
    MintReturned =>
        /\ Cardinality(RequestKeys \cap DOMAIN ret.mint_info) <= 1
        /\ ret.type = "FT" => RequestKeys \cap DOMAIN ret.mint_info = {"$request_ticker"}
        /\ ret.type = "NFT" => "$request_ticker" \notin DOMAIN ret.mint_info

\* an nft whose args request a ticker gives an NFT mint
C13_Witness ==
    /\ MintReturned
    /\ call.op_found_struct.op = "nft"
    /\ ArgOfCall(K_request_ticker) = GoodTicker
    /\ ret.type = "NFT"
    /\ RequestKeys \cap DOMAIN ret.mint_info = {}

\* the prefix of a bitwork text: what stands before the dot
BitworkPrefixOf(text) ==
    IF str_find(text, ".") < 0 THEN text ELSE SubSeq(text, 1, str_find(text, "."))

\* the call is an nft at input 0 that requests a valid subrealm of a parent
\* realm and nothing else
SubrealmOnlyCall ==
    /\ call.op_found_struct.op = "nft"
    /\ call.op_found_struct.input_index = 0
    /\ ArgOfCall(K_request_subrealm) = GoodSubrealm
    /\ \A key \in {K_request_realm, K_request_container, K_request_ticker} :
           ArgOfCall(key) = PyNone
    /\ ArgOfCall(K_claim_type) = DefaultProfile.claim_type
    /\ ArgOfCall(K_parent_realm) = DefaultProfile.parent_realm
    /\ \A key \in {K_bitworkc, K_bitworkr, K_parents} : ArgOfCall(key) = PyNone

\* C14: a mint that requests a realm, a container or a ticker is returned
\* only if args.bitworkc is present, is a valid bitwork string and has a
\* prefix of at least 4 characters; a mint that requests only a subrealm is
\* returned with no bitworkc.
C14_NamesRequireBitworkc ==
    /\ (MintReturned /\ RequestedNamesOfCall \ {K_request_subrealm} # {}) =>
           /\ ArgOfCall(K_bitworkc).t = "str"
           /\ WellFormedBitworkText(ArgOfCall(K_bitworkc).s)
           /\ Len(BitworkPrefixOf(ArgOfCall(K_bitworkc).s)) >= MIN_NAME_BITWORK_PREFIX_LEN
    /\ (MintCallDone /\ SubrealmOnlyCall) =>
           /\ MintReturned
           /\ "$request_subrealm" \in DOMAIN ret.mint_info
           /\ "$bitworkc" \notin DOMAIN ret.mint_info

\* a realm with a bitworkc of exactly 4 characters gives a mint
C14_Witness ==
    /\ MintReturned
    /\ ArgOfCall(K_request_realm) = GoodRealm
    /\ ArgOfCall(K_bitworkc) = GoodBitworkc
    /\ Len(GoodBitworkc.s) = MIN_NAME_BITWORK_PREFIX_LEN
    /\ "$request_realm" \in DOMAIN ret.mint_info

\* the ext of a bitwork text: the number behind the dot, None without a dot
BitworkExtOf(text) ==
    IF str_find(text, ".") < 0 THEN PyNone
    ELSE PyInt(py_int(SubSeq(text, str_find(text, ".") + 2, Len(text))).value)

\* the value is a valid bitwork string that the txid satisfies
BitworkSatisfied(value, txid) ==
    /\ value.t = "str"
    /\ WellFormedBitworkText(value.s)
    /\ BwShouldMatch(hash_to_hex_str(txid), BitworkPrefixOf(value.s), BitworkExtOf(value.s))

\* C15: if args.bitworkc (args.bitworkr) is set, a mint is returned only if
\* the value is a valid bitwork string that the commit txid (the reveal
\* txid) written hex satisfies, and the returned mint records the satisfied
\* values under $bitwork.
C15_RequestedBitworkIsSatisfied ==
    MintReturned =>
        /\ truthy(ArgOfCall(K_bitworkc)) =>
               BitworkSatisfied(ArgOfCall(K_bitworkc), call.op_found_struct.commit_txid)
        /\ truthy(ArgOfCall(K_bitworkr)) =>
               BitworkSatisfied(ArgOfCall(K_bitworkr), call.op_found_struct.reveal_location_txid)
        /\ (truthy(ArgOfCall(K_bitworkc)) \/ truthy(ArgOfCall(K_bitworkr))) =>
               /\ "$bitwork" \in DOMAIN ret.mint_info
               /\ ret.mint_info["$bitwork"] =
                      [bitworkc |-> IF truthy(ArgOfCall(K_bitworkc))
                                    THEN ArgOfCall(K_bitworkc) ELSE PyNone,
                       bitworkr |-> IF truthy(ArgOfCall(K_bitworkr))
                                    THEN ArgOfCall(K_bitworkr) ELSE PyNone]

\* a mint with a bitworkc and a bitworkr with an ext, both satisfied
C15_Witness ==
    /\ MintReturned
    /\ ArgOfCall(K_bitworkc) = GoodBitworkc
    /\ ArgOfCall(K_bitworkr).t = "str"
    /\ str_find(ArgOfCall(K_bitworkr).s, ".") > 0
    /\ "$bitwork" \in DOMAIN ret.mint_info

\* the value of a spent-input record: the little-endian 64-bit number behind
\* the hashX and the script hash, the last 8 bytes of its value field (the
\* upper 4 bytes are 0 in every record here)
RecordValue(entry) ==
    unpack_le_uint32_from(SubSeq(entry.value, Len(entry.value) - 7, Len(entry.value)))

\* the sum of the values of the records with the atomical id, from the i-th on
RECURSIVE SpentSumFrom(_, _, _)
SpentSumFrom(entries, atomical_id, i) ==
    IF i > Len(entries) THEN 0
    ELSE (IF entries[i].atomical_id = atomical_id THEN RecordValue(entries[i]) ELSE 0)
             + SpentSumFrom(entries, atomical_id, i + 1)

\* the records of all inputs spend the parent with at least the minimum
ParentSatisfied(parent) ==
    LET atomical_id == compact_to_location_id_bytes(parent.k.s).value
        entries == spent_entries(call.atomicals_spent_at_inputs)
    IN  /\ \E i \in 1..Len(entries) : entries[i].atomical_id = atomical_id
        /\ SpentSumFrom(entries, atomical_id, 1) >= parent.v.i

\* the call is an nft at input 0 that passes every other gate and declares
\* parents: compact ids with a minimum that is a non-negative int
ParentsDeclaredCall ==
    /\ call.op_found_struct.op = "nft"
    /\ call.op_found_struct.input_index = 0
    /\ RequestedNamesOfCall = {}
    /\ \A key \in {K_bitworkc, K_bitworkr} : ArgOfCall(key) = PyNone
    /\ ArgOfCall(K_parents).t = "dict"
    /\ Len(ArgOfCall(K_parents).d) > 0
    /\ \A i \in 1..Len(ArgOfCall(K_parents).d) :
           LET parent == ArgOfCall(K_parents).d[i]
           IN  /\ parent.k \in {PyStr(ParentIdA), PyStr(ParentIdB)}
               /\ parent.v.t = "int"
               /\ parent.v.i >= 0

\* C16: when a mint declares required parents, a mint is returned if and
\* only if, for every declared parent id, the sum of the value fields of all
\* spent-input records with that atomical id, across all inputs, is at least
\* the declared minimum; a parent without a record or with an insufficient
\* sum yields no mint, and the returned mint has $parents set.
C16_ParentsSpentSum ==
    (MintCallDone /\ ParentsDeclaredCall) =>
        IF \A i \in 1..Len(ArgOfCall(K_parents).d) : ParentSatisfied(ArgOfCall(K_parents).d[i])
        THEN /\ MintReturned
             /\ "$parents" \in DOMAIN ret.mint_info
             /\ ret.mint_info["$parents"] = ArgOfCall(K_parents)
        ELSE ret = NoMint

\* C29: for every operation struct whose args declare required parents and
\* every spent-atomicals map the builder ends with a mint or with no mint and
\* never with an exception: every parent key that is_compact_atomical_id
\* accepts is one that compact_to_location_id_bytes converts, and the sum over
\* the matching spent records completes.
C29_DeclaredParentsNeverRaise ==
    (MintCallDone /\ ArgOfCall(K_parents).t = "dict") =>
        /\ ret.state = "returned"
        /\ \A i \in 1..Len(ArgOfCall(K_parents).d) :
               LET key == ArgOfCall(K_parents).d[i].k
               IN  /\ is_compact_atomical_id(key).state = "returned"
                   /\ is_compact_atomical_id(key).value =>
                          compact_to_location_id_bytes(key.s).state = "returned"

\* the value is an integer (no boolean) within lo..hi
IntegerWithin(value, lo, hi) == value.t = "int" /\ value.i >= lo /\ value.i <= hi

\* C17: a dft operation yields a mint only if it has a valid ticker (one
\* that is_valid_ticker_string accepts) and
\* integer mint_height in [0,10000000], mint_amount in [546,100000000] and
\* max_mints in [1,100000]; the returned decentralized FT has $mint_height,
\* $mint_amount and $max_mints within these bounds.
C17_DftWithinBounds ==
    (MintReturned /\ call.op_found_struct.op = "dft") =>
        /\ ret.type = "FT"
        /\ ret.mint_info.subtype = "decentralized"
        /\ ArgOfCall(K_request_ticker).t = "str"
        /\ is_valid_ticker_string(ArgOfCall(K_request_ticker)) = PyBool(TRUE)
        /\ IntegerWithin(ArgOfCall(K_mint_height), DFT_MINT_HEIGHT_MIN, DFT_MINT_HEIGHT_MAX)
        /\ IntegerWithin(ArgOfCall(K_mint_amount), DFT_MINT_AMOUNT_MIN, DFT_MINT_AMOUNT_MAX)
        /\ IntegerWithin(ArgOfCall(K_max_mints), DFT_MINT_MAX_MIN_COUNT, DFT_MINT_MAX_MAX_COUNT)
        /\ ret.mint_info["$mint_height"] = ArgOfCall(K_mint_height)
        /\ ret.mint_info["$mint_amount"] = ArgOfCall(K_mint_amount)
        /\ ret.mint_info["$max_mints"] = ArgOfCall(K_max_mints)

\* the operations that mint, at the input that may mint
MintingOperation ==
    call.op_found_struct.op \in {"nft", "ft", "dft"} /\ call.op_found_struct.input_index = 0

\* C26: get_mint_info_op_factory returns either (None, None) or (type,
\* record) with type in {NFT, FT} and record.type equal to it; a mint is
\* returned only when the operation is nft, ft or dft with input_index 0,
\* and every other opcode or any input_index other than 0 yields (None,
\* None).
C26_MintOnlyForMintingOperation ==
    MintCallDone =>
        /\ ret.state = "returned"
        /\ ret.type \in {"none", "NFT", "FT"}
        /\ ret.type # "none" => (ret.mint_info.type = ret.type /\ MintingOperation)
        /\ ~MintingOperation => ret = NoMint

(***************************************************************************)
(* Claims about the name validators                                        *)
(***************************************************************************)
NameCallDone(fn) == call.fn = fn /\ ret # Pending

NameA1X == PyStr(<<"a", "1", "-", "x">>)
Name1AX == PyStr(<<"1", "a", "-", "x">>)

\* C18 as stated: the name "a1-x" is accepted by
\* is_valid_subrealm_string_name and rejected by is_valid_realm_string_name.
C18_A1XSubrealmNotRealm ==
    /\ (NameCallDone("is_valid_subrealm_string_name") /\ call.name = NameA1X) =>
           ret.value = PyBool(TRUE)
    /\ (NameCallDone("is_valid_realm_string_name") /\ call.name = NameA1X) =>
           ret.value = PyBool(FALSE)

\* C18 amended: the name "a1-x" is accepted by is_valid_subrealm_string_name
\* and by is_valid_realm_string_name; a name that begins with a digit, such
\* as "1a-x", is accepted by is_valid_subrealm_string_name and rejected by
\* is_valid_realm_string_name.
C18_DigitFirstSubrealmNotRealm ==
    /\ (NameCallDone("is_valid_subrealm_string_name") /\ call.name \in {NameA1X, Name1AX}) =>
           ret.value = PyBool(TRUE)
    /\ (NameCallDone("is_valid_realm_string_name") /\ call.name = NameA1X) =>
           ret.value = PyBool(TRUE)
    /\ (/\ NameCallDone("is_valid_realm_string_name")
        /\ call.name.t = "str"
        /\ Len(call.name.s) > 0
        /\ call.name.s[1] \in {DecDigits[d] : d \in DOMAIN DecDigits}) =>
           ret.value = PyBool(FALSE)

\* is_valid_realm_string_name has rejected "1a-x"
C18_Witness ==
    /\ NameCallDone("is_valid_realm_string_name")
    /\ call.name = Name1AX
    /\ ret.value = PyBool(FALSE)

(***************************************************************************)
(* Claims about the subrealm rules                                         *)
(***************************************************************************)
RuleCallDone(fn) == call.fn = fn /\ ret # Pending

\* the history is sorted by height descending with strictly decreasing
\* tx sequence numbers
SortedHistory(history) ==
    \A i \in 1..(Len(history) - 1) :
        /\ history[i].height >= history[i + 1].height
        /\ history[i].tx_num > history[i + 1].tx_num

\* the record of the height with the greatest tx sequence number
LatestAtHeight(history, height) ==
    history[CHOOSE i \in 1..Len(history) :
                /\ history[i].height = height
                /\ \A j \in 1..Len(history) :
                       history[j].height = height => history[j].tx_num <= history[i].tx_num]

\* C19: given a rule-update history sorted by height descending with
\* strictly decreasing tx sequence numbers,
\* create_collapsed_height_to_mod_path_history_items_map keeps exactly one
\* record per distinct height, the one with the greatest tx sequence number
\* among the records of that height.
C19_CollapseKeepsLatestPerHeight ==
    (/\ RuleCallDone("create_collapsed_height_to_mod_path_history_items_map")
     /\ SortedHistory(call.subrealm_mint_modpath_history)) =>
        /\ ret.state = "returned"
        /\ DOMAIN ret.value =
               {call.subrealm_mint_modpath_history[i].height :
                    i \in 1..Len(call.subrealm_mint_modpath_history)}
        /\ \A height \in DOMAIN ret.value :
               ret.value[height] = LatestAtHeight(call.subrealm_mint_modpath_history, height)

\* two updates at the same height and one at a lower height: two records
\* are kept
C19_Witness ==
    /\ RuleCallDone("create_collapsed_height_to_mod_path_history_items_map")
    /\ Len(call.subrealm_mint_modpath_history) = 3
    /\ call.subrealm_mint_modpath_history[1].height = call.subrealm_mint_modpath_history[2].height
    /\ call.subrealm_mint_modpath_history[2].height > call.subrealm_mint_modpath_history[3].height
    /\ ret.state = "returned"
    /\ Cardinality(DOMAIN ret.value) = 2
    /\ ret.value[call.subrealm_mint_modpath_history[1].height] =
           call.subrealm_mint_modpath_history[1]

\* the heights of the records that are in force at the height
EffectiveHeights(history, height) ==
    {history[i].height : i \in {j \in 1..Len(history) :
         history[j].height + MINT_SUBREALM_RULES_BECOME_EFFECTIVE_IN_BLOCKS <= height}}

\* C20: calculate_subrealm_rules_list_as_of_height(h, history) only uses a
\* record of height H with H + 3 <= h: the record evaluated is the collapsed
\* record with the greatest such H, from h = H + 3 on; a returned result has
\* rule_valid_from_height = rule_set_height + 3 <= h, and when no record is
\* in force the result is no rule.
C20_RuleInForceAfterThreeBlocks ==
    (/\ RuleCallDone("calculate_subrealm_rules_list_as_of_height")
     /\ SortedHistory(call.subrealm_mint_modpath_history)) =>
        LET history == call.subrealm_mint_modpath_history
            effective == EffectiveHeights(history, call.height)
        IN  /\ ret.state = "returned"
            /\ effective = {} => ret = NoRule
            /\ ret.found =>
                   /\ effective # {}
                   /\ ret.rule_set_height = SetMax(effective)
                   /\ ret.rule_set_txid = LatestAtHeight(history, SetMax(effective)).txid
                   /\ ret.rule_valid_from_height =
                          ret.rule_set_height + MINT_SUBREALM_RULES_BECOME_EFFECTIVE_IN_BLOCKS
                   /\ ret.rule_valid_from_height <= call.height
            /\ effective # {} =>
                   /\ LatestAtHeight(history, SetMax(effective)).data = GoodRuleData => ret.found
                   /\ LatestAtHeight(history, SetMax(effective)).data = BadRuleData => ~ret.found

\* a record of height H is returned at h = H + 3 while a later record of a
\* greater height is not yet in force
C20_Witness ==
    /\ RuleCallDone("calculate_subrealm_rules_list_as_of_height")
    /\ Len(call.subrealm_mint_modpath_history) = 2
    /\ call.subrealm_mint_modpath_history[1].height > call.subrealm_mint_modpath_history[2].height
    /\ call.height = call.subrealm_mint_modpath_history[2].height
                         + MINT_SUBREALM_RULES_BECOME_EFFECTIVE_IN_BLOCKS
    /\ ret.state = "returned"
    /\ ret.found
    /\ ret.rule_set_height = call.subrealm_mint_modpath_history[2].height
    /\ ret.rule_valid_from_height = call.height

\* an amount the rules may ask for: an integer that is not negative
AmountWellFormed(amount) == amount.t = "int" /\ amount.i >= 0

\* o is empty or holds a negative or non-integer amount
OutputsMalformed(o) ==
    \/ o.t # "dict"
    \/ Len(o.d) = 0
    \/ \E i \in 1..Len(o.d) : ~AmountWellFormed(o.d[i].v)

\* a rule without p or o, with malformed o, or with p that does not compile
RuleEntryMalformed(rule) ==
    \/ rule.t # "dict"
    \/ dict_get(rule, K_p) = PyNone
    \/ dict_get(rule, K_o) = PyNone
    \/ OutputsMalformed(dict_get(rule, K_o))
    \/ ~re_compile_ok(format_pattern(dict_get(rule, K_p)))

\* wrong path, rules missing, empty or not a list, or a malformed rule
RuleDataMalformed(data) ==
    \/ data.t # "dict"
    \/ dict_get(data, K_path) # PyStr(SUBREALM_MINT_PATH)
    \/ dict_get(data, K_rules) = PyNone
    \/ dict_get(data, K_rules).t # "list"
    \/ Len(dict_get(data, K_rules).l) = 0
    \/ \E i \in 1..Len(dict_get(data, K_rules).l) :
           RuleEntryMalformed(dict_get(data, K_rules).l[i])

\* the newest record in force at the height of the call
NewestEffective == LatestAtHeight(call.subrealm_mint_modpath_history, SetMax(EffectiveHeights(call.subrealm_mint_modpath_history, call.height)))

StatusCallDone(fn) == call.fn = fn /\ ret # Pending

\* the call returned a status dict with this status
StatusReturned(status) ==
    ret.state = "returned" /\ ret.value.status = Word(status)

\* the blocks between the commit and the reveal of the candidate
RevealGap ==
    call.atomical_info.mint_info.reveal_location_height
        - call.atomical_info.mint_info.commit_height

\* C22: whenever the candidate's reveal height exceeds its commit height by
\* more than 3, get_name_request_candidate_status and
\* get_subrealm_request_candidate_status return status
\* expired_revealed_late, for every current height, external winner
\* status, winner id and payment record; when the gap is at most 3 they
\* never return expired_revealed_late.
C22_RevealedLateIffGapAboveThree ==
    (StatusCallDone("get_name_request_candidate_status")
         \/ StatusCallDone("get_subrealm_request_candidate_status")) =>
        (StatusReturned("expired_revealed_late") <=> RevealGap > 3)

\* a subrealm candidate revealed 4 blocks after its commit, verified as the
\* winner by the index and paid, is reported expired_revealed_late
C22_Witness ==
    /\ StatusCallDone("get_subrealm_request_candidate_status")
    /\ RevealGap = 4
    /\ call.status = Word("verified")
    /\ call.candidate_id = call.atomical_info.atomical_id
    /\ \E n \in 1..Len(call.atomical_info.subrealm_candidates) :
           call.atomical_info.subrealm_candidates[n].payment # PyNone
    /\ StatusReturned("expired_revealed_late")

\* the candidate of the atomical itself among the candidates of the call
OwnCandidate ==
    call.atomical_info.subrealm_candidates[current_candidate_index(call.atomical_info)]

\* a subrealm candidate revealed in time, with a rule that matched and that
\* asks for a payment
TimelyRuleCandidate ==
    /\ RevealGap <= 3
    /\ current_candidate_index(call.atomical_info) # 0
    /\ OwnCandidate.payment_type = Word("applicable_rule")
    /\ OwnCandidate.applicable_rule # PyNone

\* the last height at which the payment is accepted
PaymentDeadline ==
    call.atomical_info.mint_info.commit_height + MINT_SUBREALM_COMMIT_PAYMENT_DELAY_BLOCKS

\* C23: for a subrealm candidate revealed in time, with payment_type
\* applicable_rule, a matched applicable rule, no payment recorded and an
\* external status other than verified,
\* get_subrealm_request_candidate_status returns
\* expired_payment_not_received exactly when the current height is greater
\* than commit_height + 15 (not yet at the deadline height itself), and a
\* candidate with a recorded payment is never reported
\* expired_payment_not_received.
C23_ExpiredExactlyAfterPaymentDeadline ==
    (/\ StatusCallDone("get_subrealm_request_candidate_status")
     /\ current_candidate_index(call.atomical_info) # 0) =>
        /\ (TimelyRuleCandidate /\ OwnCandidate.payment = PyNone
                /\ call.status # Word("verified")) =>
               (StatusReturned("expired_payment_not_received")
                    <=> call.current_height > PaymentDeadline)
        /\ OwnCandidate.payment # PyNone => ~StatusReturned("expired_payment_not_received")

\* at the first height after the deadline an unpaid candidate is expired
C23_Witness ==
    /\ StatusCallDone("get_subrealm_request_candidate_status")
    /\ TimelyRuleCandidate
    /\ OwnCandidate.payment = PyNone
    /\ call.status = Word("pending_awaiting_payment")
    /\ call.current_height = PaymentDeadline + 1
    /\ StatusReturned("expired_payment_not_received")

\* the stage of a status on the way of an unpaid claim
StatusStage(status) ==
    CASE status = Word("pending_awaiting_confirmations_for_payment_window") -> 1
      [] status = Word("pending_awaiting_payment") -> 2
      [] status = Word("expired_payment_not_received") -> 3
      [] OTHER -> 0

\* C30: for a subrealm candidate revealed in time with payment_type
\* applicable_rule, a matched rule, no payment recorded and external status
\* pending_awaiting_payment, get_subrealm_request_candidate_status returns
\* pending_awaiting_confirmations_for_payment_window below commit_height +
\* 3, pending_awaiting_payment from commit_height + 3 to commit_height + 15
\* and expired_payment_not_received above commit_height + 15; the status
\* one block later is never an earlier stage.
C30_StagesFollowTheHeight ==
    (/\ StatusCallDone("get_subrealm_request_candidate_status")
     /\ TimelyRuleCandidate
     /\ OwnCandidate.payment = PyNone
     /\ call.status = Word("pending_awaiting_payment")) =>
        /\ ret.state = "returned"
        /\ ret.value.status =
               (IF call.current_height < call.atomical_info.mint_info.commit_height + 3
                THEN Word("pending_awaiting_confirmations_for_payment_window")
                ELSE IF call.current_height <= PaymentDeadline
                THEN Word("pending_awaiting_payment")
                ELSE Word("expired_payment_not_received"))
        /\ StatusStage(ret.value.status) >= 1
        /\ StatusStage(get_subrealm_request_candidate_status(
                           call.current_height + 1, call.atomical_info, call.status,
                           call.candidate_id).value.status)
               >= StatusStage(ret.value.status)

\* at height commit_height + 3 the payment window is open
C30_Witness ==
    /\ StatusCallDone("get_subrealm_request_candidate_status")
    /\ TimelyRuleCandidate
    /\ OwnCandidate.payment = PyNone
    /\ call.status = Word("pending_awaiting_payment")
    /\ call.current_height = call.atomical_info.mint_info.commit_height + 3
    /\ StatusReturned("pending_awaiting_payment")

(***************************************************************************)
(* Claims about the payment marker                                         *)
(***************************************************************************)
\* OP_RETURN, an optional 00 byte, the marker, 01 70 24
MarkerHeads ==
    {<<OP_RETURN>> \o zero \o ATOMICALS_ENVELOPE_MARKER_BYTES \o <<1, 112, PAYMENT_MARKER_ID_LEN>> :
         zero \in {<<>>, <<0>>}}

\* the script is one of the heads followed by a 36-byte id
PaymentMarkerForm(script) ==
    \E head \in MarkerHeads :
        /\ Len(script) = Len(head) + PAYMENT_MARKER_ID_LEN
        /\ SubSeq(script, 1, Len(head)) = head

\* C24: is_op_return_payment_marker_atomical_id returns the 36-byte id for
\* every output script of the form OP_RETURN, an optional 00 byte, the 5
\* marker bytes 04 61 74 6f 6d, the bytes 01 70 24 and a 36-byte id; it
\* returns nothing for every script not of this form, and any id it returns
\* is exactly 36 bytes long.
C24_PaymentMarkerIdOfWellFormedScript ==
    (call.fn = "is_op_return_payment_marker_atomical_id" /\ ret # Pending) =>
        /\ ret.state = "returned"
        /\ PaymentMarkerForm(call.script) =>
               /\ ret.found
               /\ ret.value = SubSeq(call.script, Len(call.script) - PAYMENT_MARKER_ID_LEN + 1,
                                     Len(call.script))
        /\ ~PaymentMarkerForm(call.script) => ~ret.found
        /\ ret.found => Len(ret.value) = PAYMENT_MARKER_ID_LEN

====
